---- MODULE Spec2Model ----
(***************************************************************************)
(* Cart Manager of the e-commerce backend: CartService (cart.service.ts),  *)
(* the catalog lookup it depends on (product.service.ts) and the           *)
(* cart_items / products tables of the Prisma schema.                      *)
(*                                                                         *)
(* Every service method is a small program over a frame f (its arguments   *)
(* and locals, with a program counter f.pc) and a world w (the products    *)
(* table, the cart_items table and the static guestCarts map).  One step   *)
(* of a method runs from one await to the next.  Run executes a method to  *)
(* completion; the sequential specification Spec serves one request at a   *)
(* time, each action being one whole call of a service method.  The        *)
(* concurrent specification SpecC keeps the frames of the requests in      *)
(* flight in calls and interleaves their steps.                            *)
(***************************************************************************)
EXTENDS Integers, Sequences, FiniteSets, TLC

VARIABLES products, cartItems, guestCarts, calls, wishlistItems

vars == <<products, cartItems, guestCarts, calls, wishlistItems>>

----------------------------------------------------------------------------
(* Bounds of the model *)

MaxStock == 2
MaxQuantity == 3

(* the quantity up to which the growth of a line is followed *)
MaxLineQuantity == 4
MaxTotalStock == 3

ProductIds == {"A", "B"}
UserIds == {"u1"}
SessionIds == {"s1"}

(* the requests the event loop can have in flight at once *)
Requests == {"r1", "r2"}

(* price is held at one value per product; it only enters the totals *)
PriceOf(id) == IF id = "A" THEN 2 ELSE 3

(* null of TypeScript *)
Null == [null |-> TRUE]

(* an absent identifier: validateCart tests its arguments for truthiness *)
NoId == ""

(* the prisma call of a merged guest line that throws, "none" if none does *)
FaultKinds == {"none", "findUnique", "getProductById", "upsert"}
NoFaults == [id \in ProductIds |-> "none"]

----------------------------------------------------------------------------
(* Sequence helpers *)

RECURSIVE SumSeq(_)
SumSeq(s) == IF s = <<>> THEN 0 ELSE Head(s) + SumSeq(Tail(s))

Reverse(s) == [k \in 1..Len(s) |-> s[Len(s) + 1 - k]]

(* items.findIndex(item => item.productId === productId), 1-based; 0 *)
(* stands for -1                                                      *)
FindIndex(items, productId) ==
  IF \E k \in 1..Len(items) : items[k].productId = productId
  THEN CHOOSE k \in 1..Len(items) :
         /\ items[k].productId = productId
         /\ \A j \in 1..(k - 1) : items[j].productId # productId
  ELSE 0

----------------------------------------------------------------------------
(* The world a service method runs against *)

World == [products |-> products, cartItems |-> cartItems, guestCarts |-> guestCarts,
          wishlistItems |-> wishlistItems]

(* productService.getProductById: prisma.product.findUnique({where: {id}}) *)
getProductById(w, id) ==
  IF id \in DOMAIN w.products THEN w.products[id] ELSE Null

(* a where clause that leaves the user out *)
IsRowOf_AnyUser(r, userId, productId) == r.productId = productId

(* prisma.cartItem.findUnique({where: {userId_productId}}) *)
IsRowOf(r, userId, productId) == r.userId = userId /\ r.productId = productId

findUnique(rows, userId, productId) ==
  LET found == SelectSeq(rows, LAMBDA r : IsRowOf(r, userId, productId))
  IN IF found = <<>> THEN Null ELSE Head(found)

(* an upsert whose update branch writes the create payload *)
upsert_UpdateWritesCreate(rows, userId, productId, createQuantity, updateQuantity) ==
  IF \E k \in 1..Len(rows) : IsRowOf(rows[k], userId, productId)
  THEN [k \in 1..Len(rows) |->
          IF IsRowOf(rows[k], userId, productId)
          THEN [rows[k] EXCEPT !.quantity = createQuantity]
          ELSE rows[k]]
  ELSE Append(rows, [userId |-> userId, productId |-> productId,
                     quantity |-> createQuantity])

(* an upsert whose update branch increments the row by the added quantity *)
upsert_Increment(rows, userId, productId, createQuantity, updateQuantity) ==
  IF \E k \in 1..Len(rows) : IsRowOf(rows[k], userId, productId)
  THEN [k \in 1..Len(rows) |->
          IF IsRowOf(rows[k], userId, productId)
          THEN [rows[k] EXCEPT !.quantity = @ + createQuantity]
          ELSE rows[k]]
  ELSE Append(rows, [userId |-> userId, productId |-> productId,
                     quantity |-> createQuantity])

(* prisma.cartItem.upsert({where, create: {quantity: c}, update: {quantity: u}}) *)
upsert(rows, userId, productId, createQuantity, updateQuantity) ==
  IF \E k \in 1..Len(rows) : IsRowOf(rows[k], userId, productId)
  THEN [k \in 1..Len(rows) |->
          IF IsRowOf(rows[k], userId, productId)
          THEN [rows[k] EXCEPT !.quantity = updateQuantity]
          ELSE rows[k]]
  ELSE Append(rows, [userId |-> userId, productId |-> productId,
                     quantity |-> createQuantity])

(* an update that increments the stored quantity *)
updateRow_Increment(rows, userId, productId, quantity) ==
  [k \in 1..Len(rows) |->
     IF IsRowOf(rows[k], userId, productId)
     THEN [rows[k] EXCEPT !.quantity = @ + quantity]
     ELSE rows[k]]

(* prisma.cartItem.update: the caller sees P2025 when no row matches *)
updateRow(rows, userId, productId, quantity) ==
  [k \in 1..Len(rows) |->
     IF IsRowOf(rows[k], userId, productId)
     THEN [rows[k] EXCEPT !.quantity = quantity]
     ELSE rows[k]]

(* prisma.cartItem.delete *)
deleteRow(rows, userId, productId) ==
  SelectSeq(rows, LAMBDA r : ~IsRowOf(r, userId, productId))

(* a deleteMany that deletes the first matching row only *)
deleteMany_FirstOnly(rows, userId) ==
  IF \E k \in 1..Len(rows) : rows[k].userId = userId
  THEN LET first == CHOOSE k \in 1..Len(rows) :
                      /\ rows[k].userId = userId
                      /\ \A j \in 1..(k - 1) : rows[j].userId # userId
       IN SubSeq(rows, 1, first - 1) \o SubSeq(rows, first + 1, Len(rows))
  ELSE rows

(* prisma.cartItem.deleteMany({where: {userId}}) *)
deleteMany(rows, userId) == SelectSeq(rows, LAMBDA r : r.userId # userId)

----------------------------------------------------------------------------
(* Summaries *)

createEmptyCartSummary ==
  [items |-> <<>>, totalItems |-> 0, totalAmount |-> 0, subtotal |-> 0]

(* a summary whose totalItems counts the lines instead of their quantities *)
calculateCartSummary_CountsLines(items) ==
  LET subtotal == SumSeq([k \in 1..Len(items) |->
                            items[k].product.price * items[k].quantity])
  IN [items |-> items, totalItems |-> Len(items),
      totalAmount |-> subtotal, subtotal |-> subtotal]

calculateCartSummary(items) ==
  LET totalItems == SumSeq([k \in 1..Len(items) |-> items[k].quantity])
      subtotal == SumSeq([k \in 1..Len(items) |->
                            items[k].product.price * items[k].quantity])
  IN [items |-> items, totalItems |-> totalItems,
      totalAmount |-> subtotal, subtotal |-> subtotal]

(* prisma.cartItem.findMany({where: {userId}, include: {product}, orderBy: createdAt desc}) *)
findManyWithProduct(w, userId) ==
  LET mine == SelectSeq(w.cartItems, LAMBDA r : r.userId = userId)
  IN Reverse([k \in 1..Len(mine) |->
       [productId |-> mine[k].productId, quantity |-> mine[k].quantity,
        product |-> w.products[mine[k].productId]]])

----------------------------------------------------------------------------
(* Frames *)

NewFrame(fn, userId, sessionId, productId, quantity, faults) ==
  [op |-> fn, fn |-> fn, pc |-> "start", ret |-> "",
   userId |-> userId, sessionId |-> sessionId,
   productId |-> productId, quantity |-> quantity, faults |-> faults,
   product |-> Null, existingItem |-> Null, newQuantity |-> 0,
   items |-> <<>>, i |-> 1, acc |-> <<>>, live |-> FALSE,
   outcome |-> "pending",
   summary |-> Null, validation |-> Null, caught |-> {}]

Ret(f, w) == [f |-> f, w |-> w]

Goto(f, pc, w) == Ret([f EXCEPT !.pc = pc], w)

Throw(f, message, w) == Ret([f EXCEPT !.pc = "done", !.outcome = message], w)

----------------------------------------------------------------------------
(* Authenticated cart: rows of cart_items *)

(* getUserCart; f.ret names the caller that awaits it, "" the request itself *)
getUserCart(f, w) ==
  LET cart == calculateCartSummary(findManyWithProduct(w, f.userId))
  IN IF f.ret = "validateCart"
     THEN Ret([f EXCEPT !.fn = "validateCart", !.pc = "loop", !.ret = "",
                        !.items = cart.items, !.i = 1], w)
     ELSE Ret([f EXCEPT !.pc = "done", !.outcome = "ok", !.summary = cart], w)

(* a newQuantity that forgets the quantity already in the cart *)
CombinedQuantity_DeltaOnly(hasExisting, existingQuantity, quantity) == quantity

(* newQuantity of addToUserCart, addToGuestCart and the merge loop *)
CombinedQuantity(hasExisting, existingQuantity, quantity) ==
  IF hasExisting THEN existingQuantity + quantity ELSE quantity

(* product.stock < newQuantity *)
InsufficientStock(product, requested) == product.stock < requested

addToUserCart(f, w) ==
  CASE f.pc = "start" ->
         LET product == getProductById(w, f.productId)
         IN IF product = Null
            THEN Throw(f, "Product not found", w)
            ELSE Goto([f EXCEPT !.product = product], "findUnique", w)
    [] f.pc = "findUnique" ->
         LET existingItem == findUnique(w.cartItems, f.userId, f.productId)
             newQuantity == CombinedQuantity(existingItem # Null,
                              IF existingItem # Null THEN existingItem.quantity ELSE 0,
                              f.quantity)
             g == [f EXCEPT !.existingItem = existingItem, !.newQuantity = newQuantity]
         IN IF InsufficientStock(f.product, newQuantity)
            THEN Throw(g, "Insufficient stock", w)
            ELSE Goto(g, "upsert", w)
    [] f.pc = "upsert" ->
         Ret([f EXCEPT !.fn = "getUserCart", !.pc = "start"],
             [w EXCEPT !.cartItems =
                upsert(w.cartItems, f.userId, f.productId, f.quantity, f.newQuantity)])

(* a removal that lets P2025 (no such row) reach its caller *)
removeFromUserCart_ThrowsWhenAbsent(f, w) ==
  IF findUnique(w.cartItems, f.userId, f.productId) = Null
  THEN Throw(f, "Cart item not found", w)
  ELSE Ret([f EXCEPT !.fn = "getUserCart", !.pc = "start"],
           [w EXCEPT !.cartItems = deleteRow(w.cartItems, f.userId, f.productId)])

removeFromUserCart(f, w) ==
  (* delete; P2025 (no such row) is swallowed *)
  Ret([f EXCEPT !.fn = "getUserCart", !.pc = "start"],
      [w EXCEPT !.cartItems = deleteRow(w.cartItems, f.userId, f.productId)])

(* an update that never hands a quantity over to the removal *)
RoutesToRemove_Never(quantity) == FALSE

(* if (quantity === 0) return this.removeFrom...Cart(...) *)
RoutesToRemove(quantity) == quantity = 0

(* an update that writes with upsert, creating the line it does not find *)
updateUserCartItem_Upserts(f, w) ==
  CASE f.pc = "start" ->
         IF RoutesToRemove(f.quantity)
         THEN Ret([f EXCEPT !.fn = "removeFromUserCart", !.pc = "start"], w)
         ELSE LET product == getProductById(w, f.productId)
              IN IF product = Null
                 THEN Throw(f, "Product not found", w)
                 ELSE IF InsufficientStock(product, f.quantity)
                      THEN Throw([f EXCEPT !.product = product], "Insufficient stock", w)
                      ELSE Goto([f EXCEPT !.product = product], "update", w)
    [] f.pc = "update" ->
         Ret([f EXCEPT !.fn = "getUserCart", !.pc = "start"],
             [w EXCEPT !.cartItems =
                upsert(w.cartItems, f.userId, f.productId, f.quantity, f.quantity)])

updateUserCartItem(f, w) ==
  CASE f.pc = "start" ->
         IF RoutesToRemove(f.quantity)
         THEN Ret([f EXCEPT !.fn = "removeFromUserCart", !.pc = "start"], w)
         ELSE LET product == getProductById(w, f.productId)
              IN IF product = Null
                 THEN Throw(f, "Product not found", w)
                 ELSE IF InsufficientStock(product, f.quantity)
                      THEN Throw([f EXCEPT !.product = product], "Insufficient stock", w)
                      ELSE Goto([f EXCEPT !.product = product], "update", w)
    [] f.pc = "update" ->
         IF findUnique(w.cartItems, f.userId, f.productId) = Null
         THEN Throw(f, "Cart item not found", w)
         ELSE Ret([f EXCEPT !.fn = "getUserCart", !.pc = "start"],
                  [w EXCEPT !.cartItems =
                     updateRow(w.cartItems, f.userId, f.productId, f.quantity)])

clearUserCart(f, w) ==
  Ret([f EXCEPT !.pc = "done", !.outcome = "ok"],
      [w EXCEPT !.cartItems = deleteMany(w.cartItems, f.userId)])

----------------------------------------------------------------------------
(* Guest cart: the static map CartService.guestCarts, sessionId -> GuestCart. *)
(* createdAt / updatedAt of a GuestCart are left out: nothing reads them but  *)
(* the timestamps of the summary lines.                                       *)

HasGuestCart(w, sessionId) == sessionId \in DOMAIN w.guestCarts

(* Map.prototype.set *)
MapSet(m, key, value) ==
  [k \in DOMAIN m \cup {key} |-> IF k = key THEN value ELSE m[k]]

(* Map.prototype.delete *)
MapDelete(m, key) == [k \in DOMAIN m \ {key} |-> m[k]]

(* the return of getGuestCart, to validateCart or to the request *)
ReturnGuestCart(f, cart, w) ==
  IF f.ret = "validateCart"
  THEN Ret([f EXCEPT !.fn = "validateCart", !.pc = "loop", !.ret = "",
                     !.items = cart.items, !.i = 1, !.live = FALSE], w)
  ELSE Ret([f EXCEPT !.pc = "done", !.outcome = "ok", !.summary = cart,
                     !.live = FALSE], w)

(* a read that fails on a line whose product is gone *)
getGuestCart_ThrowsOnMissing(f, w) ==
  CASE f.pc = "start" ->
         IF ~HasGuestCart(w, f.sessionId)
         THEN ReturnGuestCart(f, createEmptyCartSummary, w)
         ELSE LET items == w.guestCarts[f.sessionId].items
              IN IF items = <<>>
                 THEN ReturnGuestCart(f, calculateCartSummary(<<>>), w)
                 ELSE Goto([f EXCEPT !.items = items, !.i = 1, !.acc = <<>>,
                                !.live = TRUE], "loop", w)
    [] f.pc = "loop" ->
         LET item == f.items[f.i]
             product == getProductById(w, item.productId)
             acc == Append(f.acc, [productId |-> item.productId,
                                   quantity |-> item.quantity,
                                   product |-> product])
         IN IF product = Null
            THEN Throw(f, "Product not found", w)
            ELSE IF f.i = Len(f.items)
                 THEN ReturnGuestCart([f EXCEPT !.acc = acc], calculateCartSummary(acc), w)
                 ELSE Ret([f EXCEPT !.acc = acc, !.i = f.i + 1], w)

(* a read that stores an empty guest cart for a session that has none *)
getGuestCart_CreatesCart(f, w) ==
  CASE f.pc = "start" ->
         IF ~HasGuestCart(w, f.sessionId)
         THEN ReturnGuestCart(f, createEmptyCartSummary,
                [w EXCEPT !.guestCarts =
                   MapSet(w.guestCarts, f.sessionId, [items |-> <<>>])])
         ELSE LET items == w.guestCarts[f.sessionId].items
              IN IF items = <<>>
                 THEN ReturnGuestCart(f, calculateCartSummary(<<>>), w)
                 ELSE Goto([f EXCEPT !.items = items, !.i = 1, !.acc = <<>>,
                                !.live = TRUE], "loop", w)
    [] f.pc = "loop" ->
         LET item == f.items[f.i]
             product == getProductById(w, item.productId)
             acc == IF product # Null
                    THEN Append(f.acc, [productId |-> item.productId,
                                        quantity |-> item.quantity,
                                        product |-> product])
                    ELSE f.acc
         IN IF f.i = Len(f.items)
            THEN ReturnGuestCart([f EXCEPT !.acc = acc], calculateCartSummary(acc), w)
            ELSE Ret([f EXCEPT !.acc = acc, !.i = f.i + 1], w)

getGuestCart(f, w) ==
  CASE f.pc = "start" ->
         IF ~HasGuestCart(w, f.sessionId)
         THEN ReturnGuestCart(f, createEmptyCartSummary, w)
         ELSE LET items == w.guestCarts[f.sessionId].items
              IN IF items = <<>>
                 THEN ReturnGuestCart(f, calculateCartSummary(<<>>), w)
                 ELSE Goto([f EXCEPT !.items = items, !.i = 1, !.acc = <<>>,
                                !.live = TRUE], "loop", w)
    [] f.pc = "loop" ->
         LET item == f.items[f.i]
             product == getProductById(w, item.productId)
             acc == IF product # Null
                    THEN Append(f.acc, [productId |-> item.productId,
                                        quantity |-> item.quantity,
                                        product |-> product])
                    ELSE f.acc
         IN IF f.i = Len(f.items)
            THEN ReturnGuestCart([f EXCEPT !.acc = acc], calculateCartSummary(acc), w)
            ELSE Ret([f EXCEPT !.acc = acc, !.i = f.i + 1], w)

(* an add that pushes a new item without looking for an existing one *)
AddGuestItem_AlwaysPush(items, productId, quantity, newQuantity) ==
  Append(items, [productId |-> productId, quantity |-> quantity])

(* guestCart.items after "Update or add item" *)
AddGuestItem(items, productId, quantity, newQuantity) ==
  LET existingItemIndex == FindIndex(items, productId)
  IN IF existingItemIndex >= 1
     THEN [items EXCEPT ![existingItemIndex].quantity = newQuantity]
     ELSE Append(items, [productId |-> productId, quantity |-> quantity])

(* an add that stores the guest cart it got or created before the stock check *)
addToGuestCart_StoresBeforeCheck(f, w) ==
  CASE f.pc = "start" ->
         LET product == getProductById(w, f.productId)
         IN IF product = Null
            THEN Throw(f, "Product not found", w)
            ELSE Goto([f EXCEPT !.product = product], "cart", w)
    [] f.pc = "cart" ->
         LET items == IF HasGuestCart(w, f.sessionId)
                      THEN w.guestCarts[f.sessionId].items ELSE <<>>
             existingItemIndex == FindIndex(items, f.productId)
             newQuantity == CombinedQuantity(existingItemIndex >= 1,
                              IF existingItemIndex >= 1
                              THEN items[existingItemIndex].quantity ELSE 0,
                              f.quantity)
             stored == [w EXCEPT !.guestCarts =
                          MapSet(w.guestCarts, f.sessionId, [items |-> items])]
         IN IF InsufficientStock(f.product, newQuantity)
            THEN Throw(f, "Insufficient stock", stored)
            ELSE Ret([f EXCEPT !.fn = "getGuestCart", !.pc = "start",
                               !.newQuantity = newQuantity],
                     [w EXCEPT !.guestCarts =
                        MapSet(w.guestCarts, f.sessionId,
                               [items |-> AddGuestItem(items, f.productId,
                                                       f.quantity, newQuantity)])])

(* an add that reads the guest line before it awaits the catalog lookup *)
addToGuestCart_ReadsBeforeLookup(f, w) ==
  CASE f.pc = "start" ->
         LET items == IF HasGuestCart(w, f.sessionId)
                      THEN w.guestCarts[f.sessionId].items ELSE <<>>
             existingItemIndex == FindIndex(items, f.productId)
             newQuantity == CombinedQuantity(existingItemIndex >= 1,
                              IF existingItemIndex >= 1
                              THEN items[existingItemIndex].quantity ELSE 0,
                              f.quantity)
             product == getProductById(w, f.productId)
         IN IF product = Null
            THEN Throw(f, "Product not found", w)
            ELSE Goto([f EXCEPT !.product = product, !.newQuantity = newQuantity],
                      "cart", w)
    [] f.pc = "cart" ->
         LET items == IF HasGuestCart(w, f.sessionId)
                      THEN w.guestCarts[f.sessionId].items ELSE <<>>
         IN IF InsufficientStock(f.product, f.newQuantity)
            THEN Throw(f, "Insufficient stock", w)
            ELSE Ret([f EXCEPT !.fn = "getGuestCart", !.pc = "start"],
                     [w EXCEPT !.guestCarts =
                        MapSet(w.guestCarts, f.sessionId,
                               [items |-> AddGuestItem(items, f.productId,
                                                       f.quantity, f.newQuantity)])])

addToGuestCart(f, w) ==
  CASE f.pc = "start" ->
         LET product == getProductById(w, f.productId)
         IN IF product = Null
            THEN Throw(f, "Product not found", w)
            ELSE Goto([f EXCEPT !.product = product], "cart", w)
    [] f.pc = "cart" ->
         LET items == IF HasGuestCart(w, f.sessionId)
                      THEN w.guestCarts[f.sessionId].items ELSE <<>>
             existingItemIndex == FindIndex(items, f.productId)
             newQuantity == CombinedQuantity(existingItemIndex >= 1,
                              IF existingItemIndex >= 1
                              THEN items[existingItemIndex].quantity ELSE 0,
                              f.quantity)
             g == [f EXCEPT !.existingItem =
                              IF existingItemIndex >= 1 THEN items[existingItemIndex] ELSE Null,
                            !.newQuantity = newQuantity]
         IN IF InsufficientStock(f.product, newQuantity)
            THEN Throw(g, "Insufficient stock", w)
            ELSE Ret([g EXCEPT !.fn = "getGuestCart", !.pc = "start"],
                     [w EXCEPT !.guestCarts =
                        MapSet(w.guestCarts, f.sessionId,
                               [items |-> AddGuestItem(items, f.productId,
                                                       f.quantity, newQuantity)])])

removeFromGuestCart(f, w) ==
  IF ~HasGuestCart(w, f.sessionId)
  THEN Ret([f EXCEPT !.pc = "done", !.outcome = "ok",
                     !.summary = createEmptyCartSummary], w)
  ELSE Ret([f EXCEPT !.fn = "getGuestCart", !.pc = "start"],
           [w EXCEPT !.guestCarts =
              MapSet(w.guestCarts, f.sessionId,
                     [items |-> SelectSeq(w.guestCarts[f.sessionId].items,
                                          LAMBDA it : it.productId # f.productId)])])

updateGuestCartItem(f, w) ==
  CASE f.pc = "start" ->
         IF RoutesToRemove(f.quantity)
         THEN Ret([f EXCEPT !.fn = "removeFromGuestCart", !.pc = "start"], w)
         ELSE LET product == getProductById(w, f.productId)
              IN IF product = Null
                 THEN Throw(f, "Product not found", w)
                 ELSE IF InsufficientStock(product, f.quantity)
                      THEN Throw([f EXCEPT !.product = product], "Insufficient stock", w)
                      ELSE Goto([f EXCEPT !.product = product], "cart", w)
    [] f.pc = "cart" ->
         IF ~HasGuestCart(w, f.sessionId)
         THEN Throw(f, "Guest cart not found", w)
         ELSE LET items == w.guestCarts[f.sessionId].items
                  itemIndex == FindIndex(items, f.productId)
              IN IF itemIndex = 0
                 THEN Throw(f, "Cart item not found", w)
                 ELSE Ret([f EXCEPT !.fn = "getGuestCart", !.pc = "start"],
                          [w EXCEPT !.guestCarts =
                             MapSet(w.guestCarts, f.sessionId,
                                    [items |-> [items EXCEPT
                                                  ![itemIndex].quantity = f.quantity]])])

(* a clear that deletes the entry of the session from the map *)
clearGuestCart_Deletes(f, w) ==
  Ret([f EXCEPT !.pc = "done", !.outcome = "ok"],
      [w EXCEPT !.guestCarts = MapDelete(w.guestCarts, f.sessionId)])

clearGuestCart(f, w) ==
  Ret([f EXCEPT !.pc = "done", !.outcome = "ok"],
      [w EXCEPT !.guestCarts = MapSet(w.guestCarts, f.sessionId, [items |-> <<>>])])

----------------------------------------------------------------------------
(* Merge of a guest cart into an account cart *)

(* a merge that only asks whether the product exists *)
MergeAllowed_NoStockCheck(product, newQuantity) == product # Null

(* stock check of the merge loop: product && product.stock >= newQuantity *)
MergeAllowed(product, newQuantity) ==
  product # Null /\ product.stock >= newQuantity

(* a loop end that forgets to delete the guest cart *)
NextGuestItem_NoCleanup(f, w) ==
  IF f.i >= Len(f.items)
  THEN Ret([f EXCEPT !.fn = "getUserCart", !.pc = "start", !.live = FALSE], w)
  ELSE Ret([f EXCEPT !.i = f.i + 1, !.pc = "findUnique"], w)

(* the end of one iteration of the for loop; after the last one the guest *)
(* cart is deleted from the map and the account cart is read              *)
NextGuestItem(f, w) ==
  IF f.i >= Len(f.items)
  THEN Ret([f EXCEPT !.fn = "getUserCart", !.pc = "start", !.live = FALSE],
           [w EXCEPT !.guestCarts = MapDelete(w.guestCarts, f.sessionId)])
  ELSE Ret([f EXCEPT !.i = f.i + 1, !.pc = "findUnique"], w)

(* a loop whose try block does not enclose the failing call *)
CatchLine_Rethrow(f, w) ==
  Throw([f EXCEPT !.caught = f.caught \cup {f.items[f.i].productId}],
        "Internal server error", w)

(* catch (error) { console.warn(...) } *)
CatchLine(f, w) ==
  NextGuestItem([f EXCEPT !.caught = f.caught \cup {f.items[f.i].productId}], w)

(* a merge that treats a missing guest cart as an error *)
MergeWithoutGuestCart_Throws(f, w) == Throw(f, "Guest cart not found", w)

(* if (!guestCart || ...) return this.getUserCart(userId) *)
MergeWithoutGuestCart(f, w) ==
  Ret([f EXCEPT !.fn = "getUserCart", !.pc = "start"], w)

mergeGuestCartWithUserCart(f, w) ==
  CASE f.pc = "start" ->
         IF ~HasGuestCart(w, f.sessionId)
         THEN MergeWithoutGuestCart(f, w)
         ELSE LET g == [f EXCEPT !.items = w.guestCarts[f.sessionId].items, !.i = 1,
                                 !.live = TRUE]
              IN IF g.items = <<>>
                 THEN NextGuestItem(g, w)
                 ELSE Goto(g, "findUnique", w)
    [] f.pc = "findUnique" ->
         LET guestItem == f.items[f.i]
             existingItem == findUnique(w.cartItems, f.userId, guestItem.productId)
             newQuantity == CombinedQuantity(existingItem # Null,
                              IF existingItem # Null THEN existingItem.quantity ELSE 0,
                              guestItem.quantity)
         IN IF f.faults[guestItem.productId] = "findUnique"
            THEN CatchLine(f, w)
            ELSE Goto([f EXCEPT !.existingItem = existingItem,
                                !.newQuantity = newQuantity], "getProductById", w)
    [] f.pc = "getProductById" ->
         LET guestItem == f.items[f.i]
             product == getProductById(w, guestItem.productId)
         IN IF f.faults[guestItem.productId] = "getProductById"
            THEN CatchLine(f, w)
            ELSE IF MergeAllowed(product, f.newQuantity)
                 THEN Goto([f EXCEPT !.product = product], "upsert", w)
                 ELSE NextGuestItem([f EXCEPT !.product = product], w)
    [] f.pc = "upsert" ->
         LET guestItem == f.items[f.i]
         IN IF f.faults[guestItem.productId] = "upsert"
            THEN CatchLine(f, w)
            ELSE NextGuestItem(f,
                   [w EXCEPT !.cartItems =
                      upsert(w.cartItems, f.userId, guestItem.productId,
                             guestItem.quantity, f.newQuantity)])

----------------------------------------------------------------------------
(* Validation *)

NewValidationResult ==
  [isValid |-> TRUE, errors |-> <<>>, unavailableItems |-> <<>>, stockIssues |-> <<>>]

(* a "No cart found" that is pushed without the result being marked invalid *)
NoCartResult_StillValid ==
  [NewValidationResult EXCEPT !.errors = <<<<"No cart found", NoId>>>>]

(* the result of a validation without a user or a session *)
NoCartResult ==
  [NewValidationResult EXCEPT !.errors = <<<<"No cart found", NoId>>>>,
                              !.isValid = FALSE]

(* a validation that reports a line asking for exactly the stock *)
ValidateItem_OffByOne(result, item, product) ==
  IF product = Null
  THEN [result EXCEPT
          !.unavailableItems = Append(@, item.productId),
          !.errors = Append(@, <<"no longer available", item.productId>>),
          !.isValid = FALSE]
  ELSE IF product.stock <= item.quantity
       THEN [result EXCEPT
               !.stockIssues = Append(@, [productId |-> item.productId,
                                          requestedQuantity |-> item.quantity,
                                          availableStock |-> product.stock]),
               !.errors = Append(@, <<"Insufficient stock", item.productId>>),
               !.isValid = FALSE]
       ELSE result

(* one iteration of the loop over cartItems *)
ValidateItem(result, item, product) ==
  IF product = Null
  THEN [result EXCEPT
          !.unavailableItems = Append(@, item.productId),
          !.errors = Append(@, <<"no longer available", item.productId>>),
          !.isValid = FALSE]
  ELSE IF product.stock < item.quantity
       THEN [result EXCEPT
               !.stockIssues = Append(@, [productId |-> item.productId,
                                          requestedQuantity |-> item.quantity,
                                          availableStock |-> product.stock]),
               !.errors = Append(@, <<"Insufficient stock", item.productId>>),
               !.isValid = FALSE]
       ELSE result

validateCart(f, w) ==
  CASE f.pc = "start" ->
         LET g == [f EXCEPT !.validation = NewValidationResult]
         IN IF f.userId # NoId
            THEN Ret([g EXCEPT !.fn = "getUserCart", !.pc = "start",
                               !.ret = "validateCart"], w)
            ELSE IF f.sessionId # NoId
                 THEN Ret([g EXCEPT !.fn = "getGuestCart", !.pc = "start",
                                    !.ret = "validateCart"], w)
                 ELSE Ret([g EXCEPT !.pc = "done", !.outcome = "ok",
                                    !.validation = NoCartResult], w)
    [] f.pc = "loop" ->
         IF f.i > Len(f.items)
         THEN Ret([f EXCEPT !.pc = "done", !.outcome = "ok"], w)
         ELSE LET item == f.items[f.i]
                  product == getProductById(w, item.productId)
                  result == ValidateItem(f.validation, item, product)
              IN IF f.i = Len(f.items)
                 THEN Ret([f EXCEPT !.validation = result,
                                    !.pc = "done", !.outcome = "ok"], w)
                 ELSE Ret([f EXCEPT !.validation = result, !.i = f.i + 1], w)

----------------------------------------------------------------------------
(* Wishlist: rows of wishlist_items, and the move of a wished product into *)
(* the account's cart (WishlistService)                                    *)

WishlistRow(userId, productId) == [userId |-> userId, productId |-> productId]

addToWishlist(f, w) ==
  CASE f.pc = "start" ->
         LET product == getProductById(w, f.productId)
         IN IF product = Null
            THEN Throw(f, "Product not found", w)
            ELSE Goto([f EXCEPT !.product = product], "findUnique", w)
    [] f.pc = "findUnique" ->
         IF WishlistRow(f.userId, f.productId) \in w.wishlistItems
         THEN Throw(f, "Product already in wishlist", w)
         ELSE Goto(f, "create", w)
    [] f.pc = "create" ->
         (* wishlist_items_userId_productId_key *)
         IF WishlistRow(f.userId, f.productId) \in w.wishlistItems
         THEN Throw(f, "P2002", w)
         ELSE Ret([f EXCEPT !.pc = "done", !.outcome = "ok"],
                  [w EXCEPT !.wishlistItems =
                     @ \cup {WishlistRow(f.userId, f.productId)}])

moveToCart(f, w) ==
  CASE f.pc = "start" ->
         IF WishlistRow(f.userId, f.productId) \notin w.wishlistItems
         THEN Throw(f, "Product not found in wishlist", w)
         ELSE Goto(f, "product", w)
    [] f.pc = "product" ->
         LET product == getProductById(w, f.productId)
         IN IF product = Null
            THEN Throw(f, "Product not found", w)
            ELSE IF product.stock < f.quantity
                 THEN Throw([f EXCEPT !.product = product], "Product is out of stock", w)
                 ELSE Goto([f EXCEPT !.product = product], "findUnique", w)
    [] f.pc = "findUnique" ->
         Goto([f EXCEPT !.existingItem =
                 findUnique(w.cartItems, f.userId, f.productId)], "write", w)
    [] f.pc = "write" ->
         LET row == findUnique(w.cartItems, f.userId, f.productId)
         IN IF f.existingItem # Null
            THEN (* prisma.cartItem.update *)
                 IF row = Null
                 THEN Throw(f, "P2025", w)
                 ELSE Goto(f, "delete",
                        [w EXCEPT !.cartItems =
                           updateRow(w.cartItems, f.userId, f.productId,
                                     f.existingItem.quantity + f.quantity)])
            ELSE (* prisma.cartItem.create *)
                 IF row # Null
                 THEN Throw(f, "P2002", w)
                 ELSE Goto(f, "delete",
                        [w EXCEPT !.cartItems =
                           Append(w.cartItems,
                                  [userId |-> f.userId, productId |-> f.productId,
                                   quantity |-> f.quantity])])
    [] f.pc = "delete" ->
         IF WishlistRow(f.userId, f.productId) \notin w.wishlistItems
         THEN Throw(f, "P2025", w)
         ELSE Ret([f EXCEPT !.pc = "done", !.outcome = "ok"],
                  [w EXCEPT !.wishlistItems =
                     @ \ {WishlistRow(f.userId, f.productId)}])

----------------------------------------------------------------------------
(* Running a method *)

Step(f, w) ==
  CASE f.fn = "getUserCart" -> getUserCart(f, w)
    [] f.fn = "addToUserCart" -> addToUserCart(f, w)
    [] f.fn = "updateUserCartItem" -> updateUserCartItem(f, w)
    [] f.fn = "removeFromUserCart" -> removeFromUserCart(f, w)
    [] f.fn = "clearUserCart" -> clearUserCart(f, w)
    [] f.fn = "getGuestCart" -> getGuestCart(f, w)
    [] f.fn = "addToGuestCart" -> addToGuestCart(f, w)
    [] f.fn = "updateGuestCartItem" -> updateGuestCartItem(f, w)
    [] f.fn = "removeFromGuestCart" -> removeFromGuestCart(f, w)
    [] f.fn = "clearGuestCart" -> clearGuestCart(f, w)
    [] f.fn = "mergeGuestCartWithUserCart" -> mergeGuestCartWithUserCart(f, w)
    [] f.fn = "validateCart" -> validateCart(f, w)
    [] f.fn = "addToWishlist" -> addToWishlist(f, w)
    [] f.fn = "moveToCart" -> moveToCart(f, w)

RECURSIVE Run(_, _)
Run(f, w) ==
  IF f.pc = "done" THEN Ret(f, w)
  ELSE LET r == Step(f, w) IN Run(r.f, r.w)

----------------------------------------------------------------------------
(* The sequential system: requests are served one at a time, the catalog   *)
(* changes between them.                                                   *)

Stocks == 0..MaxStock
AddQuantities == 1..MaxQuantity
UpdateQuantities == 0..MaxQuantity

(* a call of a service method in world w: its final frame and world *)
CallIn(w, fn, userId, sessionId, productId, quantity, faults) ==
  Run(NewFrame(fn, userId, sessionId, productId, quantity, faults), w)

(* the same call in the current state *)
Call(fn, userId, sessionId, productId, quantity, faults) ==
  CallIn(World, fn, userId, sessionId, productId, quantity, faults)

(* only the guest lines of a merge can meet a throwing call *)
FaultsFor(sessionId) ==
  {faults \in [ProductIds -> FaultKinds] :
     \A id \in ProductIds :
        faults[id] # "none" =>
          /\ sessionId \in DOMAIN guestCarts
          /\ \E k \in 1..Len(guestCarts[sessionId].items) :
               guestCarts[sessionId].items[k].productId = id}

Init ==
  /\ \E stock \in [ProductIds -> Stocks] :
       products = [id \in ProductIds |->
                     [id |-> id, stock |-> stock[id], price |-> PriceOf(id)]]
  /\ cartItems = <<>>
  /\ guestCarts = <<>>
  /\ calls = [r \in Requests |-> Null]
  /\ wishlistItems = {}

GetUserCart(userId) ==
  LET r == Call("getUserCart", userId, NoId, "", 0, NoFaults)
  IN /\ r.f.outcome = "ok"
     /\ products' = r.w.products
     /\ cartItems' = r.w.cartItems
     /\ guestCarts' = r.w.guestCarts
     /\ calls' = calls
     /\ wishlistItems' = r.w.wishlistItems

AddToUserCart(userId, productId, quantity) ==
  LET r == Call("addToUserCart", userId, NoId, productId, quantity, NoFaults)
  IN /\ products' = r.w.products
     /\ cartItems' = r.w.cartItems
     /\ guestCarts' = r.w.guestCarts
     /\ calls' = calls
     /\ wishlistItems' = r.w.wishlistItems

UpdateUserCartItem(userId, productId, quantity) ==
  LET r == Call("updateUserCartItem", userId, NoId, productId, quantity, NoFaults)
  IN /\ products' = r.w.products
     /\ cartItems' = r.w.cartItems
     /\ guestCarts' = r.w.guestCarts
     /\ calls' = calls
     /\ wishlistItems' = r.w.wishlistItems

RemoveFromUserCart(userId, productId) ==
  LET r == Call("removeFromUserCart", userId, NoId, productId, 0, NoFaults)
  IN /\ products' = r.w.products
     /\ cartItems' = r.w.cartItems
     /\ guestCarts' = r.w.guestCarts
     /\ calls' = calls
     /\ wishlistItems' = r.w.wishlistItems

ClearUserCart(userId) ==
  LET r == Call("clearUserCart", userId, NoId, "", 0, NoFaults)
  IN /\ products' = r.w.products
     /\ cartItems' = r.w.cartItems
     /\ guestCarts' = r.w.guestCarts
     /\ calls' = calls
     /\ wishlistItems' = r.w.wishlistItems

GetGuestCart(sessionId) ==
  LET r == Call("getGuestCart", NoId, sessionId, "", 0, NoFaults)
  IN /\ r.f.outcome = "ok"
     /\ products' = r.w.products
     /\ cartItems' = r.w.cartItems
     /\ guestCarts' = r.w.guestCarts
     /\ calls' = calls
     /\ wishlistItems' = r.w.wishlistItems

AddToGuestCart(sessionId, productId, quantity) ==
  LET r == Call("addToGuestCart", NoId, sessionId, productId, quantity, NoFaults)
  IN /\ products' = r.w.products
     /\ cartItems' = r.w.cartItems
     /\ guestCarts' = r.w.guestCarts
     /\ calls' = calls
     /\ wishlistItems' = r.w.wishlistItems

UpdateGuestCartItem(sessionId, productId, quantity) ==
  LET r == Call("updateGuestCartItem", NoId, sessionId, productId, quantity, NoFaults)
  IN /\ products' = r.w.products
     /\ cartItems' = r.w.cartItems
     /\ guestCarts' = r.w.guestCarts
     /\ calls' = calls
     /\ wishlistItems' = r.w.wishlistItems

RemoveFromGuestCart(sessionId, productId) ==
  LET r == Call("removeFromGuestCart", NoId, sessionId, productId, 0, NoFaults)
  IN /\ products' = r.w.products
     /\ cartItems' = r.w.cartItems
     /\ guestCarts' = r.w.guestCarts
     /\ calls' = calls
     /\ wishlistItems' = r.w.wishlistItems

ClearGuestCart(sessionId) ==
  LET r == Call("clearGuestCart", NoId, sessionId, "", 0, NoFaults)
  IN /\ products' = r.w.products
     /\ cartItems' = r.w.cartItems
     /\ guestCarts' = r.w.guestCarts
     /\ calls' = calls
     /\ wishlistItems' = r.w.wishlistItems

MergeGuestCartWithUserCart(userId, guestSessionId) ==
  \E faults \in FaultsFor(guestSessionId) :
    LET r == Call("mergeGuestCartWithUserCart", userId, guestSessionId, "", 0, faults)
    IN /\ products' = r.w.products
       /\ cartItems' = r.w.cartItems
       /\ guestCarts' = r.w.guestCarts
       /\ calls' = calls
       /\ wishlistItems' = r.w.wishlistItems

ValidateCart(userId, sessionId) ==
  LET r == Call("validateCart", userId, sessionId, "", 0, NoFaults)
  IN /\ r.f.outcome = "ok"
     /\ products' = r.w.products
     /\ cartItems' = r.w.cartItems
     /\ guestCarts' = r.w.guestCarts
     /\ calls' = calls
     /\ wishlistItems' = r.w.wishlistItems

(* productService.updateStock / updateProduct on an existing product *)
UpdateStock(id, stock) ==
  /\ id \in DOMAIN products
  /\ products[id].stock # stock
  /\ products' = [products EXCEPT ![id].stock = stock]
  /\ UNCHANGED <<cartItems, guestCarts, calls, wishlistItems>>

(* productService.deleteProduct; cart_items_productId_fkey and            *)
(* wishlist_items_productId_fkey are ON DELETE CASCADE                    *)
DeleteProduct(id) ==
  /\ id \in DOMAIN products
  /\ products' = [k \in DOMAIN products \ {id} |-> products[k]]
  /\ cartItems' = SelectSeq(cartItems, LAMBDA r : r.productId # id)
  /\ wishlistItems' = {x \in wishlistItems : x.productId # id}
  /\ UNCHANGED <<guestCarts, calls>>

Next ==
  \/ \E u \in UserIds : GetUserCart(u)
  \/ \E u \in UserIds, p \in ProductIds, q \in AddQuantities : AddToUserCart(u, p, q)
  \/ \E u \in UserIds, p \in ProductIds, q \in UpdateQuantities : UpdateUserCartItem(u, p, q)
  \/ \E u \in UserIds, p \in ProductIds : RemoveFromUserCart(u, p)
  \/ \E u \in UserIds : ClearUserCart(u)
  \/ \E s \in SessionIds : GetGuestCart(s)
  \/ \E s \in SessionIds, p \in ProductIds, q \in AddQuantities : AddToGuestCart(s, p, q)
  \/ \E s \in SessionIds, p \in ProductIds, q \in UpdateQuantities : UpdateGuestCartItem(s, p, q)
  \/ \E s \in SessionIds, p \in ProductIds : RemoveFromGuestCart(s, p)
  \/ \E s \in SessionIds : ClearGuestCart(s)
  \/ \E u \in UserIds, s \in SessionIds : MergeGuestCartWithUserCart(u, s)
  \/ \E u \in UserIds \cup {NoId}, s \in SessionIds \cup {NoId} : ValidateCart(u, s)
  \/ \E id \in ProductIds, stock \in Stocks : UpdateStock(id, stock)
  \/ \E id \in ProductIds : DeleteProduct(id)

Spec == Init /\ [][Next]_vars

----------------------------------------------------------------------------
(* Vocabulary of the properties: owners, their lines, the operations by    *)
(* owner kind                                                              *)

Owners ==
  {[kind |-> "user", id |-> u] : u \in UserIds} \cup
  {[kind |-> "guest", id |-> s] : s \in SessionIds}

(* the stored lines of an owner in world w, as (productId, quantity) pairs *)
Lines(w, o) ==
  IF o.kind = "user"
  THEN LET mine == SelectSeq(w.cartItems, LAMBDA r : r.userId = o.id)
       IN [k \in 1..Len(mine) |->
             [productId |-> mine[k].productId, quantity |-> mine[k].quantity]]
  ELSE IF o.id \in DOMAIN w.guestCarts THEN w.guestCarts[o.id].items ELSE <<>>

LinesFor(w, o, p) == SelectSeq(Lines(w, o), LAMBDA l : l.productId = p)

LinesBut(w, o, p) == SelectSeq(Lines(w, o), LAMBDA l : l.productId # p)

(* the owner's quantity of p, 0 without a line *)
Quantity(w, o, p) ==
  LET ls == LinesFor(w, o, p)
  IN SumSeq([k \in 1..Len(ls) |-> ls[k].quantity])

Line(p, q) == [productId |-> p, quantity |-> q]

AddItemIn(w, o, p, q) ==
  IF o.kind = "user"
  THEN CallIn(w, "addToUserCart", o.id, NoId, p, q, NoFaults)
  ELSE CallIn(w, "addToGuestCart", NoId, o.id, p, q, NoFaults)

AddItem(o, p, q) == AddItemIn(World, o, p, q)

UpdateItem(o, p, q) ==
  IF o.kind = "user"
  THEN Call("updateUserCartItem", o.id, NoId, p, q, NoFaults)
  ELSE Call("updateGuestCartItem", NoId, o.id, p, q, NoFaults)

Validate(o) ==
  IF o.kind = "user"
  THEN Call("validateCart", o.id, NoId, "", 0, NoFaults)
  ELSE Call("validateCart", NoId, o.id, "", 0, NoFaults)

Merge(u, s, faults) == Call("mergeGuestCartWithUserCart", u, s, "", 0, faults)

User(u) == [kind |-> "user", id |-> u]
Guest(s) == [kind |-> "guest", id |-> s]

Resolves(p) == p \in DOMAIN products

----------------------------------------------------------------------------
(* C1: for both kinds of owner, adding q > 0 of a product of the catalog   *)
(* fails with "Insufficient stock" exactly when stock(p) < e + q, e being  *)
(* the owner's current quantity of p (0 without a line), and succeeds      *)
(* otherwise.                                                              *)
C1_AddChecksCombinedStock ==
  \A o \in Owners, p \in ProductIds, q \in AddQuantities :
    Resolves(p) =>
      LET e == Quantity(World, o, p)
          outcome == AddItem(o, p, q).f.outcome
      IN /\ (outcome = "Insufficient stock") <=> (products[p].stock < e + q)
         /\ (outcome = "ok") <=> (products[p].stock >= e + q)

(* a state where, for a user and for a guest, a line holds e >= 1 of a     *)
(* product with stock e + 1: adding 2 fails on the combined quantity       *)
(* although 2 alone is in stock, adding 1 succeeds                         *)
C1_Witness ==
  \E p \in ProductIds :
    /\ Resolves(p)
    /\ \A o \in Owners :
         LET e == Quantity(World, o, p)
         IN /\ e >= 1
            /\ products[p].stock = e + 1
            /\ products[p].stock >= 2
            /\ AddItem(o, p, 2).f.outcome = "Insufficient stock"
            /\ AddItem(o, p, 1).f.outcome = "ok"

----------------------------------------------------------------------------
(* Merge *)

(* the guest lines the merge of session s meets, and what the account holds *)
GuestHas(s, p) == s \in DOMAIN guestCarts /\ LinesFor(World, Guest(s), p) # <<>>

(* C2: a merge settles every guest line (p, g) whose processing raises no  *)
(* exception against the account's quantity a of p: when p resolves and    *)
(* stock(p) >= a + g the account's line for p becomes exactly a + g;       *)
(* otherwise, and for every product without a guest line, the account's    *)
(* lines for p stay as they were.                                          *)
C2_MergePerLineRule ==
  \A u \in UserIds, s \in SessionIds :
    \A faults \in FaultsFor(s) :
      LET r == Merge(u, s, faults)
      IN \A p \in ProductIds :
           LET a == Quantity(World, User(u), p)
               g == Quantity(World, Guest(s), p)
           IN p \notin r.f.caught =>
                IF GuestHas(s, p) /\ Resolves(p) /\ products[p].stock >= a + g
                THEN LinesFor(r.w, User(u), p) = <<Line(p, a + g)>>
                ELSE LinesFor(r.w, User(u), p) = LinesFor(World, User(u), p)

(* the account holds 1 of p1, the guest 1 of p1 and 2 of p2 with a stock   *)
(* of 1: the merge accumulates p1 to 2 and leaves p2 out                   *)
C2_Witness ==
  \E u \in UserIds, s \in SessionIds, p1, p2 \in ProductIds :
    /\ p1 # p2 /\ Resolves(p1) /\ Resolves(p2)
    /\ Lines(World, User(u)) = <<Line(p1, 1)>>
    /\ Quantity(World, Guest(s), p1) = 1
    /\ Quantity(World, Guest(s), p2) = 2
    /\ products[p1].stock = 2 /\ products[p2].stock = 1
    /\ LET r == Merge(u, s, NoFaults)
       IN /\ r.f.outcome = "ok"
          /\ Lines(r.w, User(u)) = <<Line(p1, 2)>>

(* C3: a merge called for a session that has a guest cart returns with no  *)
(* guest cart left for that session, whatever happened to its lines.       *)
C3_MergeDeletesGuestCart ==
  \A u \in UserIds, s \in SessionIds :
    \A faults \in FaultsFor(s) :
      HasGuestCart(World, s) =>
        LET r == Merge(u, s, faults)
        IN r.f.pc = "done" /\ ~HasGuestCart(r.w, s)

(* a guest cart with one line that is skipped for its stock and one whose  *)
(* processing throws: the merge merges nothing and deletes the guest cart  *)
C3_Witness ==
  \E u \in UserIds, s \in SessionIds, p1, p2 \in ProductIds :
    /\ p1 # p2 /\ GuestHas(s, p1) /\ GuestHas(s, p2)
    /\ Resolves(p1) /\ products[p1].stock < Quantity(World, Guest(s), p1)
    /\ LET r == Merge(u, s, [NoFaults EXCEPT ![p2] = "findUnique"])
       IN /\ r.f.caught = {p2}
          /\ r.w.cartItems = cartItems
          /\ ~HasGuestCart(r.w, s)

(* the world in which the guest cart of s has lost the lines of products ps *)
WithoutGuestLines(s, ps) ==
  [World EXCEPT !.guestCarts[s].items =
     SelectSeq(@, LAMBDA l : l.productId \notin ps)]

(* C4: an exception raised while one guest line is processed does not      *)
(* reach the caller of merge, and the other lines are merged as they are   *)
(* by a merge of the guest cart without the failing lines.                 *)
C4_MergeIsolatesFailingLine ==
  \A u \in UserIds, s \in SessionIds :
    \A faults \in FaultsFor(s) :
      HasGuestCart(World, s) =>
        LET r == Merge(u, s, faults)
            f0 == NewFrame("mergeGuestCartWithUserCart", u, s, "", 0, NoFaults)
            skipped == Run(f0, WithoutGuestLines(s, r.f.caught))
        IN /\ r.f.outcome = "ok"
           /\ r.w = skipped.w
           /\ r.f.summary = skipped.f.summary

(* the first guest line throws in its upsert, the second is merged *)
C4_Witness ==
  \E u \in UserIds, s \in SessionIds, p1, p2 \in ProductIds :
    /\ p1 # p2
    /\ HasGuestCart(World, s)
    /\ Len(guestCarts[s].items) = 2
    /\ guestCarts[s].items[1].productId = p1
    /\ guestCarts[s].items[2].productId = p2
    /\ LET r == Merge(u, s, [NoFaults EXCEPT ![p1] = "upsert"])
       IN /\ r.f.caught = {p1}
          /\ r.f.outcome = "ok"
          /\ Quantity(r.w, User(u), p1) = Quantity(World, User(u), p1)
          /\ Quantity(r.w, User(u), p2) =
               Quantity(World, User(u), p2) + Quantity(World, Guest(s), p2)

----------------------------------------------------------------------------
(* Validation *)

Range(seq) == {seq[k] : k \in 1..Len(seq)}

(* C5: when a cart holds a line for a product that no longer resolves,     *)
(* validateCart for its owner returns isValid = false and lists the        *)
(* product in unavailableItems.                                            *)
C5_ValidateListsUnavailable ==
  \A o \in Owners, p \in ProductIds :
    (LinesFor(World, o, p) # <<>> /\ ~Resolves(p)) =>
      LET v == Validate(o).f.validation
      IN v.isValid = FALSE /\ p \in Range(v.unavailableItems)

(* the stock issue validateCart reports for a line *)
StockIssue(l) ==
  [productId |-> l.productId, requestedQuantity |-> l.quantity,
   availableStock |-> products[l.productId].stock]

(* C6: validateCart reports a stock issue (productId, line quantity,       *)
(* current stock) for exactly the lines whose product resolves with less   *)
(* stock than the line's quantity, and isValid holds exactly when errors,  *)
(* unavailableItems and stockIssues are all empty.                         *)
C6_ValidateStockIssues ==
  \A o \in Owners :
    LET v == Validate(o).f.validation
        short == SelectSeq(Lines(World, o),
                   LAMBDA l : Resolves(l.productId)
                              /\ products[l.productId].stock < l.quantity)
    IN /\ Range(v.stockIssues) = {StockIssue(l) : l \in Range(short)}
       /\ Len(v.stockIssues) = Len(short)
       /\ v.isValid <=> (v.errors = <<>> /\ v.unavailableItems = <<>>
                         /\ v.stockIssues = <<>>)

(* every cart holds the single line (p, 2), the stock of p is now 1:       *)
(* validation is invalid with the single entry (p, 2, 1)                   *)
C6_Witness ==
  \E p \in ProductIds :
    /\ Resolves(p) /\ products[p].stock = 1
    /\ \A o \in Owners :
         /\ Lines(World, o) = <<Line(p, 2)>>
         /\ Validate(o).f.validation.isValid = FALSE
         /\ Validate(o).f.validation.stockIssues =
              <<[productId |-> p, requestedQuantity |-> 2, availableStock |-> 1]>>

(* C7, as claimed: validateCart without a user and without a session       *)
(* throws instead of returning a result, and returns a result for every    *)
(* owner.                                                                  *)
C7_ValidateWithoutOwnerThrows ==
  /\ Call("validateCart", NoId, NoId, "", 0, NoFaults).f.outcome # "ok"
  /\ \A o \in Owners : Validate(o).f.outcome = "ok"

(* C7, amended: validateCart without a user and without a session does not *)
(* throw; it returns the result isValid = false with the single error "No  *)
(* cart found" and changes nothing; with an owner it returns a result too, *)
(* whatever the cart holds, and changes nothing.                           *)
C7_ValidateAlwaysReturnsResult ==
  /\ LET r == Call("validateCart", NoId, NoId, "", 0, NoFaults)
     IN /\ r.f.outcome = "ok"
        /\ r.f.validation =
             [isValid |-> FALSE, errors |-> <<<<"No cart found", NoId>>>>,
              unavailableItems |-> <<>>, stockIssues |-> <<>>]
        /\ r.w = World
  /\ \A o \in Owners :
       LET r == Validate(o)
       IN /\ r.f.outcome = "ok"
          /\ r.f.validation # Null
          /\ r.f.validation.isValid \in BOOLEAN
          /\ r.w = World

(* a cart that breaks the stock rule is reported, not thrown, and the call *)
(* without an owner returns "No cart found"                                *)
C7_Witness ==
  \E o \in Owners :
    /\ Validate(o).f.outcome = "ok"
    /\ Validate(o).f.validation.isValid = FALSE
    /\ Validate(o).f.validation.stockIssues # <<>>
    /\ LET r == Call("validateCart", NoId, NoId, "", 0, NoFaults)
       IN r.f.outcome = "ok" /\ r.f.validation.errors = <<<<"No cart found", NoId>>>>

----------------------------------------------------------------------------
(* Lines *)

(* C8: in every reachable state every cart, of a user or of a guest, holds *)
(* at most one line per product.                                           *)
C8_OneLinePerOwnerAndProduct ==
  \A o \in Owners, p \in ProductIds : Len(LinesFor(World, o, p)) <= 1

(* every owner holds a line for p and adds p again: still one line *)
C8_Witness ==
  \E p \in ProductIds :
    \A o \in Owners :
      /\ LinesFor(World, o, p) = <<Line(p, 1)>>
      /\ AddItem(o, p, 1).f.outcome = "ok"
      /\ LinesFor(AddItem(o, p, 1).w, o, p) = <<Line(p, 2)>>

(* C9: a successful add of q of p leaves exactly one line for p, of        *)
(* quantity e + q where e is the quantity before (0 without a line), and   *)
(* every other line of the cart as it was.                                 *)
C9_AddAccumulates ==
  \A o \in Owners, p \in ProductIds, q \in AddQuantities :
    LET r == AddItem(o, p, q)
        e == Quantity(World, o, p)
    IN r.f.outcome = "ok" =>
         /\ LinesFor(r.w, o, p) = <<Line(p, e + q)>>
         /\ LinesBut(r.w, o, p) = LinesBut(World, o, p)

(* every owner holds a line of another product and none of p; adding 1 of  *)
(* p twice yields the one line (p, 2) beside the other line                *)
C9_Witness ==
  \E p \in ProductIds :
    \A o \in Owners :
      LET r1 == AddItemIn(World, o, p, 1)
          r2 == AddItemIn(r1.w, o, p, 1)
      IN /\ LinesFor(World, o, p) = <<>>
         /\ LinesBut(World, o, p) # <<>>
         /\ r1.f.outcome = "ok" /\ r2.f.outcome = "ok"
         /\ LinesFor(r2.w, o, p) = <<Line(p, 2)>>
         /\ LinesBut(r2.w, o, p) = LinesBut(World, o, p)

(* C10: an update to q > 0 of an existing line succeeds exactly when the   *)
(* product exists with stock(p) >= q, whatever the line held, and then the *)
(* line holds exactly q; it fails with "Insufficient stock" exactly when   *)
(* the product exists with stock(p) < q.                                   *)
C10_UpdateReplaces ==
  \A o \in Owners, p \in ProductIds, q \in AddQuantities :
    LinesFor(World, o, p) # <<>> =>
      LET r == UpdateItem(o, p, q)
      IN /\ (r.f.outcome = "ok") <=> (Resolves(p) /\ products[p].stock >= q)
         /\ (r.f.outcome = "Insufficient stock") <=>
              (Resolves(p) /\ products[p].stock < q)
         /\ r.f.outcome = "ok" =>
              /\ LinesFor(r.w, o, p) = <<Line(p, q)>>
              /\ LinesBut(r.w, o, p) = LinesBut(World, o, p)
         /\ r.f.outcome # "ok" => r.w = World

(* every owner holds 1 of p, the stock is 2: the update to 2 succeeds and  *)
(* stores 2, the update to 3 fails                                         *)
C10_Witness ==
  \E p \in ProductIds :
    /\ Resolves(p) /\ products[p].stock = 2
    /\ \A o \in Owners :
         /\ LinesFor(World, o, p) = <<Line(p, 1)>>
         /\ UpdateItem(o, p, 2).f.outcome = "ok"
         /\ LinesFor(UpdateItem(o, p, 2).w, o, p) = <<Line(p, 2)>>
         /\ UpdateItem(o, p, 3).f.outcome = "Insufficient stock"

----------------------------------------------------------------------------
(* Update, remove and clear of a single cart *)

UpdateItemIn(w, o, p, q) ==
  IF o.kind = "user"
  THEN CallIn(w, "updateUserCartItem", o.id, NoId, p, q, NoFaults)
  ELSE CallIn(w, "updateGuestCartItem", NoId, o.id, p, q, NoFaults)

RemoveItemIn(w, o, p) ==
  IF o.kind = "user"
  THEN CallIn(w, "removeFromUserCart", o.id, NoId, p, 0, NoFaults)
  ELSE CallIn(w, "removeFromGuestCart", NoId, o.id, p, 0, NoFaults)

RemoveItem(o, p) == RemoveItemIn(World, o, p)

ClearCartIn(w, o) ==
  IF o.kind = "user"
  THEN CallIn(w, "clearUserCart", o.id, NoId, "", 0, NoFaults)
  ELSE CallIn(w, "clearGuestCart", NoId, o.id, "", 0, NoFaults)

ClearCart(o) == ClearCartIn(World, o)

(* the messages that name a missing product, line or guest cart *)
NotFoundConditions ==
  {"Product not found", "Cart item not found", "Guest cart not found"}

(* C11, as claimed: an update to q > 0 of a product the owner has no line  *)
(* for fails with a not-found condition and leaves the owner without a     *)
(* line for it.                                                            *)
C11_UpdateOfMissingLineIsNotFound ==
  \A o \in Owners, p \in ProductIds, q \in AddQuantities :
    LinesFor(World, o, p) = <<>> =>
      LET r == UpdateItem(o, p, q)
      IN /\ r.f.outcome \in NotFoundConditions
         /\ LinesFor(r.w, o, p) = <<>>

(* C11, amended: an update to q > 0 of a product the owner has no line for *)
(* always fails and changes nothing: with "Product not found" when the     *)
(* product is not in the catalog, with "Insufficient stock" when its stock *)
(* is below q, and otherwise with "Cart item not found" ("Guest cart not   *)
(* found" for a session without a guest cart).                             *)
C11_UpdateOfMissingLineFails ==
  \A o \in Owners, p \in ProductIds, q \in AddQuantities :
    LinesFor(World, o, p) = <<>> =>
      LET r == UpdateItem(o, p, q)
      IN /\ r.f.outcome =
              IF ~Resolves(p) THEN "Product not found"
              ELSE IF products[p].stock < q THEN "Insufficient stock"
              ELSE IF o.kind = "guest" /\ ~HasGuestCart(World, o.id)
                   THEN "Guest cart not found"
                   ELSE "Cart item not found"
         /\ r.w = World
         /\ LinesFor(r.w, o, p) = <<>>

(* the user holds a line of another product, the session has no guest cart *)
(* and p has a stock of 2: an update of p to 1 is refused as not found for *)
(* both, an update to 3 as out of stock                                    *)
C11_Witness ==
  \E u \in UserIds, s \in SessionIds, p \in ProductIds :
    /\ Resolves(p) /\ products[p].stock = 2
    /\ Lines(World, User(u)) # <<>> /\ LinesFor(World, User(u), p) = <<>>
    /\ ~HasGuestCart(World, s)
    /\ UpdateItem(User(u), p, 1).f.outcome = "Cart item not found"
    /\ UpdateItem(Guest(s), p, 1).f.outcome = "Guest cart not found"
    /\ UpdateItem(User(u), p, 3).f.outcome = "Insufficient stock"
    /\ UpdateItem(Guest(s), p, 3).f.outcome = "Insufficient stock"
    /\ UpdateItem(User(u), p, 1).w = World
    /\ UpdateItem(Guest(s), p, 1).w = World

(* C12: from every cart state an update to quantity 0 ends in the same     *)
(* state, with the same successful outcome and the same summary, as the    *)
(* removal of the product, whether or not the cart has a line for it and   *)
(* whether or not the product is still in the catalog; no line of quantity *)
(* 0 is stored.                                                            *)
C12_UpdateToZeroIsRemove ==
  \A o \in Owners, p \in ProductIds :
    LET u == UpdateItem(o, p, 0)
        r == RemoveItem(o, p)
    IN /\ u.f.outcome = "ok" /\ r.f.outcome = "ok"
       /\ u.w = r.w
       /\ u.f.summary = r.f.summary
       /\ LinesFor(u.w, o, p) = <<>>
       /\ \A k \in 1..Len(Lines(u.w, o)) : Lines(u.w, o)[k].quantity # 0

(* the guest cart holds a line of p1 and one of p2, which has left the     *)
(* catalog, the user a line of p1 only: the update to 0 removes the line   *)
(* of p1 from both carts, the unresolved line of p2 from the guest cart,   *)
(* and succeeds for the user's missing line of p2                          *)
C12_Witness ==
  \E u \in UserIds, s \in SessionIds, p1, p2 \in ProductIds :
    /\ Resolves(p1) /\ ~Resolves(p2)
    /\ LinesFor(World, Guest(s), p1) # <<>> /\ LinesFor(World, Guest(s), p2) # <<>>
    /\ LinesFor(World, User(u), p1) # <<>> /\ LinesFor(World, User(u), p2) = <<>>
    /\ Lines(UpdateItem(User(u), p1, 0).w, User(u)) = <<>>
    /\ LinesFor(UpdateItem(Guest(s), p1, 0).w, Guest(s), p1) = <<>>
    /\ LinesFor(UpdateItem(Guest(s), p2, 0).w, Guest(s), p2) = <<>>
    /\ UpdateItem(Guest(s), p2, 0).w = RemoveItem(Guest(s), p2).w
    /\ UpdateItem(User(u), p2, 0).f.outcome = "ok"
    /\ UpdateItem(User(u), p2, 0).w = World

C14_FailedCallChangesNothing ==
  \A o \in Owners, p \in ProductIds, q \in AddQuantities :
    /\ AddItem(o, p, q).f.outcome # "ok" => AddItem(o, p, q).w = World
    /\ UpdateItem(o, p, q).f.outcome # "ok" => UpdateItem(o, p, q).w = World

(* p1 has a stock of 1 and the user holds it, p2 has left the catalog, the *)
(* session has no guest cart: the adds and updates below fail for the      *)
(* three reasons and nothing changes                                       *)
C14_Witness ==
  \E u \in UserIds, s \in SessionIds, p1, p2 \in ProductIds :
    /\ Resolves(p1) /\ products[p1].stock = 1 /\ ~Resolves(p2)
    /\ Lines(World, User(u)) = <<Line(p1, 1)>>
    /\ ~HasGuestCart(World, s)
    /\ AddItem(User(u), p1, 1).f.outcome = "Insufficient stock"
    /\ AddItem(Guest(s), p1, 2).f.outcome = "Insufficient stock"
    /\ ~HasGuestCart(AddItem(Guest(s), p1, 2).w, s)
    /\ AddItem(Guest(s), p2, 1).f.outcome = "Product not found"
    /\ UpdateItem(User(u), p1, 2).f.outcome = "Insufficient stock"
    /\ UpdateItem(Guest(s), p1, 1).f.outcome = "Guest cart not found"
    /\ AddItem(User(u), p1, 1).w = World
    /\ UpdateItem(User(u), p1, 2).w = World

----------------------------------------------------------------------------
(* The concurrent system: requests of the same account are in flight       *)
(* together.  Every await of a service method is a point where the event   *)
(* loop (or another instance over the same database) runs the steps of     *)
(* another request.                                                        *)

(* A request arrives and the controller calls the service method: the     *)
(* frame of the call takes the free slot r.                                *)
BeginAddToUserCart(r, userId, productId, quantity) ==
  /\ calls[r] = Null
  /\ calls' = [calls EXCEPT ![r] =
                 NewFrame("addToUserCart", userId, NoId, productId, quantity, NoFaults)]
  /\ UNCHANGED <<products, cartItems, guestCarts, wishlistItems>>

BeginUpdateUserCartItem(r, userId, productId, quantity) ==
  /\ calls[r] = Null
  /\ calls' = [calls EXCEPT ![r] =
                 NewFrame("updateUserCartItem", userId, NoId, productId, quantity, NoFaults)]
  /\ UNCHANGED <<products, cartItems, guestCarts, wishlistItems>>

BeginRemoveFromUserCart(r, userId, productId) ==
  /\ calls[r] = Null
  /\ calls' = [calls EXCEPT ![r] =
                 NewFrame("removeFromUserCart", userId, NoId, productId, 0, NoFaults)]
  /\ UNCHANGED <<products, cartItems, guestCarts, wishlistItems>>

BeginClearUserCart(r, userId) ==
  /\ calls[r] = Null
  /\ calls' = [calls EXCEPT ![r] =
                 NewFrame("clearUserCart", userId, NoId, "", 0, NoFaults)]
  /\ UNCHANGED <<products, cartItems, guestCarts, wishlistItems>>

(* The step of f, from world w to world w2, replaces the items array of    *)
(* session s: removeFromGuestCart assigns the filtered copy, clearGuestCart *)
(* stores a new cart, the merge deletes the entry.                         *)
ReplacesItems(f, w, w2, s) ==
  \/ s \notin DOMAIN w2.guestCarts
  \/ /\ f.fn \in {"removeFromGuestCart", "clearGuestCart"}
     /\ f.sessionId = s
     /\ f.fn = "clearGuestCart" \/ HasGuestCart(w, s)

(* The frame g of another request after the step of f: a loop over          *)
(* guestCart.items iterates the array itself, so it sees what addToGuestCart *)
(* and updateGuestCartItem push or assign in place for as long as the map   *)
(* holds that array, and keeps the old array once it is replaced.           *)
SeenBy(g, f, w, w2) ==
  IF g = Null
  THEN g
  ELSE IF ~g.live \/ g.pc = "done"
       THEN g
       ELSE IF ReplacesItems(f, w, w2, g.sessionId)
            THEN [g EXCEPT !.live = FALSE]
            ELSE [g EXCEPT !.items = w2.guestCarts[g.sessionId].items]

(* the request runs from the await it waits at to its next await *)
Resume(r) ==
  /\ calls[r] # Null
  /\ calls[r].pc # "done"
  /\ LET s == Step(calls[r], World)
     IN /\ calls' = [x \in Requests |->
                      IF x = r THEN s.f ELSE SeenBy(calls[x], calls[r], World, s.w)]
        /\ products' = s.w.products
        /\ cartItems' = s.w.cartItems
        /\ guestCarts' = s.w.guestCarts
        /\ wishlistItems' = s.w.wishlistItems

(* the response, or the error, is sent *)
Respond(r) ==
  /\ calls[r] # Null
  /\ calls[r].pc = "done"
  /\ calls' = [calls EXCEPT ![r] = Null]
  /\ UNCHANGED <<products, cartItems, guestCarts, wishlistItems>>

NextC ==
  \/ \E r \in Requests, u \in UserIds, p \in ProductIds, q \in AddQuantities :
       BeginAddToUserCart(r, u, p, q)
  \/ \E r \in Requests, u \in UserIds, p \in ProductIds, q \in UpdateQuantities :
       BeginUpdateUserCartItem(r, u, p, q)
  \/ \E r \in Requests, u \in UserIds, p \in ProductIds :
       BeginRemoveFromUserCart(r, u, p)
  \/ \E r \in Requests, u \in UserIds : BeginClearUserCart(r, u)
  \/ \E r \in Requests : Resume(r)
  \/ \E r \in Requests : Respond(r)

SpecC == Init /\ [][NextC]_vars

----------------------------------------------------------------------------
(* Concurrent adds to one line *)

(* the request in slot r is an add that has returned successfully *)
AddSucceeded(r) ==
  /\ calls[r] # Null
  /\ calls[r].op = "addToUserCart"
  /\ calls[r].pc = "done"
  /\ calls[r].outcome = "ok"

(* the quantity an add read before its stock check, 0 without a line *)
ReadQuantity(f) == IF f.existingItem = Null THEN 0 ELSE f.existingItem.quantity

(* two adds in flight together, to the same line, that read the same       *)
(* existing line (or both none) and both succeeded: neither can have read  *)
(* after the other wrote, for a write changes what is there to read        *)
BothReadThenWrote(r1, r2) ==
  /\ r1 # r2
  /\ AddSucceeded(r1) /\ AddSucceeded(r2)
  /\ calls[r1].userId = calls[r2].userId
  /\ calls[r1].productId = calls[r2].productId
  /\ calls[r1].existingItem = calls[r2].existingItem

(* C15: when two concurrent adds of q1 and q2 to the same line of an       *)
(* account both read the same existing quantity e before either writes and *)
(* both succeed, the line ends with e + q1 or e + q2, which is less than   *)
(* e + q1 + q2: one of the two additions is lost.                          *)
C15_ConcurrentAddsLoseAnUpdate ==
  \A r1, r2 \in Requests :
    BothReadThenWrote(r1, r2) =>
      LET f1 == calls[r1]
          f2 == calls[r2]
          e == ReadQuantity(f1)
          stored == Quantity(World, User(f1.userId), f1.productId)
      IN /\ stored \in {e + f1.quantity, e + f2.quantity}
         /\ stored < e + f1.quantity + f2.quantity

(* two adds of 1 have both read the quantity 1, both have returned their   *)
(* cart, and the line holds 2, not 3                                       *)
C15_Witness ==
  \E r1, r2 \in Requests :
    /\ BothReadThenWrote(r1, r2)
    /\ ReadQuantity(calls[r1]) = 1
    /\ calls[r1].quantity = 1 /\ calls[r2].quantity = 1
    /\ Quantity(World, User(calls[r1].userId), calls[r1].productId) = 2

(* the request in slot r is an add about to run its upsert *)
AtUpsert(r) ==
  /\ calls[r] # Null
  /\ calls[r].fn = "addToUserCart"
  /\ calls[r].pc = "upsert"

(* the rows after the step *)
RowsAfter == [products |-> products', cartItems |-> cartItems',
              guestCarts |-> guestCarts', wishlistItems |-> wishlistItems']

(* C16: whatever other requests of the same account did since an add read  *)
(* the existing line, the upsert of the add leaves the line with           *)
(* newQuantity, the quantity it read plus the quantity it adds.            *)
C16_UpsertStoresNewQuantity ==
  [][\A r \in Requests :
       (AtUpsert(r) /\ calls'[r] # calls[r]) =>
         Quantity(RowsAfter, User(calls[r].userId), calls[r].productId)
           = calls[r].newQuantity]_vars

----------------------------------------------------------------------------
(* Stored quantities and the life of a guest cart *)

(* C17: with adds of a quantity > 0 and updates to a quantity >= 0, every  *)
(* stored line, of a user or of a guest, written by an add, an update or a *)
(* merge, has a quantity >= 1 in every reachable state.                    *)
C17_StoredQuantityIsPositive ==
  \A o \in Owners :
    \A k \in 1..Len(Lines(World, o)) : Lines(World, o)[k].quantity >= 1

(* the user's cart holds the two lines a merge and an add can leave, the   *)
(* guest cart two lines too; an update to 0 of any of them removes the     *)
(* line instead of storing 0                                               *)
C17_Witness ==
  \E p1, p2 \in ProductIds :
    /\ p1 # p2 /\ Resolves(p1) /\ Resolves(p2)
    /\ \A o \in Owners :
         /\ Len(Lines(World, o)) = 2
         /\ Quantity(World, o, p1) = 2
         /\ UpdateItem(o, p1, 0).f.outcome = "ok"
         /\ Lines(UpdateItem(o, p1, 0).w, o) = LinesFor(World, o, p2)
         /\ Quantity(UpdateItem(o, p1, 0).w, o, p2) >= 1

GetCart(o) ==
  IF o.kind = "user"
  THEN Call("getUserCart", o.id, NoId, "", 0, NoFaults)
  ELSE Call("getGuestCart", NoId, o.id, "", 0, NoFaults)

(* C18, as claimed: after a clear for a guest session the map has no entry *)
(* for the session, as after a merge.                                      *)
C18_ClearDeletesGuestCart ==
  \A s \in SessionIds :
    /\ ~HasGuestCart(ClearCart(Guest(s)).w, s)
    /\ \A u \in UserIds : ~HasGuestCart(Merge(u, s, NoFaults).w, s)

(* C18, amended: after a clear for a guest session the map holds an entry  *)
(* for the session, a guest cart without lines, whether or not there was   *)
(* one before; a merge leaves no entry.  An entry comes into being with a  *)
(* successful add or a clear only, and goes with a merge only.             *)
C18_ClearLeavesEmptyGuestCart ==
  \A s \in SessionIds :
    LET had == HasGuestCart(World, s)
    IN /\ LET r == ClearCart(Guest(s))
          IN /\ r.f.outcome = "ok"
             /\ HasGuestCart(r.w, s)
             /\ r.w.guestCarts[s].items = <<>>
       /\ \A u \in UserIds : \A faults \in FaultsFor(s) :
            ~HasGuestCart(Merge(u, s, faults).w, s)
       /\ \A p \in ProductIds, q \in AddQuantities :
            HasGuestCart(AddItem(Guest(s), p, q).w, s)
              <=> (had \/ AddItem(Guest(s), p, q).f.outcome = "ok")
       /\ \A p \in ProductIds, q \in UpdateQuantities :
            HasGuestCart(UpdateItem(Guest(s), p, q).w, s) <=> had
       /\ \A p \in ProductIds : HasGuestCart(RemoveItem(Guest(s), p).w, s) <=> had
       /\ HasGuestCart(GetCart(Guest(s)).w, s) <=> had
       /\ HasGuestCart(Validate(Guest(s)).w, s) <=> had

(* a guest cart with a line is cleared: the session keeps an empty cart,   *)
(* so an update after the clear is refused for the missing line, not for a *)
(* missing cart, and a merge after the clear removes the entry             *)
C18_Witness ==
  \E u \in UserIds, s \in SessionIds, p \in ProductIds :
    /\ Resolves(p) /\ products[p].stock >= 1
    /\ LinesFor(World, Guest(s), p) # <<>>
    /\ LET r == ClearCart(Guest(s))
       IN /\ r.f.outcome = "ok"
          /\ HasGuestCart(r.w, s)
          /\ Lines(r.w, Guest(s)) = <<>>
          /\ UpdateItemIn(r.w, Guest(s), p, 1).f.outcome = "Cart item not found"
          /\ ~HasGuestCart(CallIn(r.w, "mergeGuestCartWithUserCart",
                                  u, s, "", 0, NoFaults).w, s)

(* C19: a clear succeeds and leaves its owner without lines, whatever the  *)
(* cart held and also when it was empty or never existed; it touches no    *)
(* other cart and not the catalog, and a second clear changes nothing      *)
(* after the first.                                                        *)
C19_ClearIsIdempotent ==
  \A o \in Owners :
    LET r1 == ClearCart(o)
        r2 == ClearCartIn(r1.w, o)
    IN /\ r1.f.outcome = "ok" /\ r2.f.outcome = "ok"
       /\ Lines(r1.w, o) = <<>>
       /\ r2.w = r1.w
       /\ r1.w.products = products
       /\ \A other \in Owners \ {o} : Lines(r1.w, other) = Lines(World, other)

(* the user holds two lines, the session never had a guest cart: both      *)
(* clears succeed, the user's two lines are gone                           *)
C19_Witness ==
  \E u \in UserIds, s \in SessionIds :
    /\ Len(Lines(World, User(u))) = 2
    /\ ~HasGuestCart(World, s)
    /\ ClearCart(User(u)).f.outcome = "ok"
    /\ Lines(ClearCart(User(u)).w, User(u)) = <<>>
    /\ ClearCart(Guest(s)).f.outcome = "ok"
    /\ Lines(ClearCart(Guest(s)).w, Guest(s)) = <<>>
    /\ ClearCartIn(ClearCart(User(u)).w, User(u)).w = ClearCart(User(u)).w

MergeIn(w, u, s) == CallIn(w, "mergeGuestCartWithUserCart", u, s, "", 0, NoFaults)

(* C20: a merge for a session without a guest cart raises no error,        *)
(* changes nothing and returns the summary getUserCart returns; so a       *)
(* second merge of a session, right after a first one, changes nothing and *)
(* returns the summary the first one returned.                             *)
C20_MergeWithoutGuestCartIsNoOp ==
  \A u \in UserIds, s \in SessionIds :
    /\ ~HasGuestCart(World, s) =>
         LET r == Merge(u, s, NoFaults)
         IN /\ r.f.outcome = "ok"
            /\ r.w = World
            /\ r.f.summary = GetCart(User(u)).f.summary
    /\ \A faults \in FaultsFor(s) :
         LET r1 == Merge(u, s, faults)
             r2 == MergeIn(r1.w, u, s)
         IN /\ r2.f.outcome = "ok"
            /\ r2.w = r1.w
            /\ r2.f.summary = r1.f.summary

(* the first merge folds a guest line into an account that holds a line,   *)
(* the second finds no guest cart and returns the same two-line summary    *)
C20_Witness ==
  \E u \in UserIds, s \in SessionIds, p1, p2 \in ProductIds :
    /\ p1 # p2
    /\ LinesFor(World, User(u), p1) # <<>> /\ LinesFor(World, User(u), p2) = <<>>
    /\ LinesFor(World, Guest(s), p2) # <<>>
    /\ LET r1 == Merge(u, s, NoFaults)
           r2 == MergeIn(r1.w, u, s)
       IN /\ LinesFor(r1.w, User(u), p2) # <<>>
          /\ ~HasGuestCart(r1.w, s)
          /\ r2.f.outcome = "ok" /\ r2.w = r1.w
          /\ Len(r2.f.summary.items) = 2

----------------------------------------------------------------------------
(* Reading a guest cart *)

(* the lines of a summary as (productId, quantity) pairs *)
SummaryLines(summary) ==
  [k \in 1..Len(summary.items) |->
     Line(summary.items[k].productId, summary.items[k].quantity)]

(* C22: getGuestCart returns, in their stored order, exactly the stored    *)
(* lines whose product is in the catalog, each with the product as it is   *)
(* now; the other lines are left out without an error; totalItems and      *)
(* subtotal are sums over the returned lines; the stored guest cart is not *)
(* changed by the read.                                                    *)
C22_GuestReadDropsUnresolved ==
  \A s \in SessionIds :
    LET r == GetCart(Guest(s))
        kept == SelectSeq(Lines(World, Guest(s)), LAMBDA l : Resolves(l.productId))
        summary == r.f.summary
    IN /\ r.f.outcome = "ok"
       /\ r.w = World
       /\ SummaryLines(summary) = kept
       /\ \A k \in 1..Len(summary.items) :
            summary.items[k].product = products[summary.items[k].productId]
       /\ summary.totalItems = SumSeq([k \in 1..Len(kept) |-> kept[k].quantity])
       /\ summary.subtotal =
            SumSeq([k \in 1..Len(kept) |->
                      kept[k].quantity * products[kept[k].productId].price])
       /\ summary.totalAmount = summary.subtotal

(* the guest cart holds 1 of p1, which has left the catalog, and 2 of p2:  *)
(* the summary is the one line of p2, 2 items, and the cart still holds    *)
(* both lines                                                              *)
C22_Witness ==
  \E s \in SessionIds, p1, p2 \in ProductIds :
    /\ ~Resolves(p1) /\ Resolves(p2)
    /\ Quantity(World, Guest(s), p1) = 1
    /\ Quantity(World, Guest(s), p2) = 2
    /\ LET r == GetCart(Guest(s))
       IN /\ r.f.outcome = "ok"
          /\ SummaryLines(r.f.summary) = <<Line(p2, 2)>>
          /\ r.f.summary.totalItems = 2
          /\ r.f.summary.subtotal = 2 * products[p2].price
          /\ Len(Lines(r.w, Guest(s))) = 2

(* C23: getGuestCart for a session without a guest cart returns the empty  *)
(* summary (no lines, totalItems, subtotal and totalAmount 0) without an   *)
(* error and stores no guest cart for the session.                         *)
C23_EmptyGuestSummary ==
  \A s \in SessionIds :
    ~HasGuestCart(World, s) =>
      LET r == GetCart(Guest(s))
      IN /\ r.f.outcome = "ok"
         /\ r.f.summary =
              [items |-> <<>>, totalItems |-> 0, totalAmount |-> 0, subtotal |-> 0]
         /\ r.w = World
         /\ ~HasGuestCart(r.w, s)

(* an account holds lines, the session never added anything: its read is   *)
(* the empty summary and leaves the map without an entry                   *)
C23_Witness ==
  \E u \in UserIds, s \in SessionIds :
    /\ Lines(World, User(u)) # <<>>
    /\ ~HasGuestCart(World, s)
    /\ GetCart(Guest(s)).f.outcome = "ok"
    /\ GetCart(Guest(s)).f.summary.items = <<>>
    /\ GetCart(Guest(s)).f.summary.totalItems = 0
    /\ ~HasGuestCart(GetCart(Guest(s)).w, s)

----------------------------------------------------------------------------
(* Summaries under price changes: the sequential system with a catalog     *)
(* whose prices change between requests                                    *)

Prices == {2, 3}

(* productService.updateProduct with a new price *)
UpdatePrice(id, price) ==
  /\ id \in DOMAIN products
  /\ products[id].price # price
  /\ products' = [products EXCEPT ![id].price = price]
  /\ UNCHANGED <<cartItems, guestCarts, calls, wishlistItems>>

NextP ==
  \/ Next
  \/ \E id \in ProductIds, price \in Prices : UpdatePrice(id, price)

SpecP == Init /\ [][NextP]_vars

(* the totals of a summary are the sums over its own lines, each priced    *)
(* with the product as the catalog holds it now                            *)
SummaryIsConsistent(summary) ==
  /\ summary # Null
  /\ \A k \in 1..Len(summary.items) :
       /\ summary.items[k].productId \in DOMAIN products
       /\ summary.items[k].product = products[summary.items[k].productId]
  /\ summary.totalItems =
       SumSeq([k \in 1..Len(summary.items) |-> summary.items[k].quantity])
  /\ summary.subtotal =
       SumSeq([k \in 1..Len(summary.items) |->
                 summary.items[k].quantity
                   * products[summary.items[k].productId].price])
  /\ summary.totalAmount = summary.subtotal

(* C24: the summary returned by a read, a successful add, update or        *)
(* removal, or a merge has totalItems equal to the sum of the quantities   *)
(* of its lines and subtotal = totalAmount equal to the sum of quantity    *)
(* times the product's current price; a price changed since the line was   *)
(* added is the price the summary uses.                                    *)
C24_SummaryTotals ==
  /\ \A o \in Owners :
       /\ SummaryIsConsistent(GetCart(o).f.summary)
       /\ \A p \in ProductIds :
            /\ \A q \in AddQuantities :
                 AddItem(o, p, q).f.outcome = "ok" =>
                   SummaryIsConsistent(AddItem(o, p, q).f.summary)
            /\ \A q \in UpdateQuantities :
                 UpdateItem(o, p, q).f.outcome = "ok" =>
                   SummaryIsConsistent(UpdateItem(o, p, q).f.summary)
            /\ SummaryIsConsistent(RemoveItem(o, p).f.summary)
  /\ \A u \in UserIds, s \in SessionIds :
       \A faults \in FaultsFor(s) :
         SummaryIsConsistent(Merge(u, s, faults).f.summary)

(* the world after the catalog has changed the price of p *)
WithPrice(p, price) == [World EXCEPT !.products[p].price = price]

GetCartIn(w, o) ==
  IF o.kind = "user"
  THEN CallIn(w, "getUserCart", o.id, NoId, "", 0, NoFaults)
  ELSE CallIn(w, "getGuestCart", NoId, o.id, "", 0, NoFaults)

(* every cart holds 2 of p and 1 of another product, and the price of p is *)
(* no longer the one it had when the catalog was created: the read totals  *)
(* 3 items and prices p with the price of now; after one more price change *)
(* the next read uses that price                                           *)
C24_Witness ==
  \E p, p2 \in ProductIds :
    /\ p # p2 /\ Resolves(p) /\ Resolves(p2)
    /\ products[p].price # PriceOf(p)
    /\ \A o \in Owners :
         /\ Quantity(World, o, p) = 2 /\ Quantity(World, o, p2) = 1
         /\ GetCart(o).f.summary.totalItems = 3
         /\ GetCart(o).f.summary.subtotal =
              2 * products[p].price + products[p2].price
         /\ GetCartIn(WithPrice(p, PriceOf(p)), o).f.summary.subtotal =
              2 * PriceOf(p) + products[p2].price

----------------------------------------------------------------------------
(* The account's cart and wishlist, one request at a time, over a catalog  *)
(* whose stock does not change                                             *)

AddToWishlist(userId, productId) ==
  LET r == Call("addToWishlist", userId, NoId, productId, 0, NoFaults)
  IN /\ products' = r.w.products
     /\ cartItems' = r.w.cartItems
     /\ guestCarts' = r.w.guestCarts
     /\ calls' = calls
     /\ wishlistItems' = r.w.wishlistItems

MoveToCart(userId, productId, quantity) ==
  LET r == Call("moveToCart", userId, NoId, productId, quantity, NoFaults)
  IN /\ Quantity(r.w, [kind |-> "user", id |-> userId], productId) <= MaxLineQuantity
     /\ products' = r.w.products
     /\ cartItems' = r.w.cartItems
     /\ guestCarts' = r.w.guestCarts
     /\ calls' = calls
     /\ wishlistItems' = r.w.wishlistItems

NextW ==
  \/ \E u \in UserIds, p \in ProductIds : AddToWishlist(u, p)
  \/ \E u \in UserIds, p \in ProductIds, q \in AddQuantities : MoveToCart(u, p, q)
  \/ \E u \in UserIds, p \in ProductIds, q \in AddQuantities : AddToUserCart(u, p, q)
  \/ \E u \in UserIds, p \in ProductIds, q \in UpdateQuantities : UpdateUserCartItem(u, p, q)
  \/ \E u \in UserIds, p \in ProductIds : RemoveFromUserCart(u, p)

SpecW == Init /\ [][NextW]_vars

(* C26: a move from the wishlist to the cart succeeds only when the stock  *)
(* covers the quantity already in the cart plus the moved one, so that     *)
(* with constant stock no line of an account exceeds the stock of its      *)
(* product.                                                                *)
C26_MoveToCartKeepsStockCeiling ==
  /\ \A u \in UserIds, p \in ProductIds, q \in AddQuantities :
       Call("moveToCart", u, NoId, p, q, NoFaults).f.outcome = "ok" =>
         products[p].stock >= Quantity(World, User(u), p) + q
  /\ \A u \in UserIds :
       \A k \in 1..Len(Lines(World, User(u))) :
         Lines(World, User(u))[k].quantity
           <= products[Lines(World, User(u))[k].productId].stock

----------------------------------------------------------------------------
(* The HTTP layer for guests (CartController): a request carries the       *)
(* session id of the framework, req.sessionID, and the header              *)
(* X-Session-ID; NoId stands for an absent one.  No session middleware is  *)
(* installed, so req.sessionID is absent.                                  *)

(* the values generateUuid() can return *)
Uuids == {"g1", "g2"}

FrameworkSessionIds == {NoId}

(* what a client can send as X-Session-ID: an id of its own or one the     *)
(* server returned in the response header                                  *)
HeaderSessionIds == SessionIds \cup Uuids

GuestRequests ==
  [sessionID : FrameworkSessionIds, header : HeaderSessionIds \cup {NoId}]

getSessionIdFromHeaders(req) == req.header

getSessionIdForGuest(req) ==
  IF req.sessionID # NoId THEN req.sessionID ELSE getSessionIdFromHeaders(req)

(* req.sessionID || generateUuid() of getCart and addToCart *)
SessionIdOrUuid(req, uuid) ==
  IF req.sessionID # NoId THEN req.sessionID ELSE uuid

(* req.sessionID || req.headers['x-session-id'] of updateCartItem *)
SessionIdOrHeader(req) ==
  IF req.sessionID # NoId THEN req.sessionID ELSE req.header

(* the session id a route hands to the service, NoId when it answers 400 *)
ResolveSessionId(route, req, uuid) ==
  CASE route \in {"getCart", "addToCart"} -> SessionIdOrUuid(req, uuid)
    [] route = "updateCartItem" -> SessionIdOrHeader(req)
    [] route \in {"removeCartItem", "clearCart", "validateCart"} ->
         getSessionIdForGuest(req)

GuestRoutes ==
  {"getCart", "addToCart", "updateCartItem", "removeCartItem", "clearCart",
   "validateCart"}

(* a v4 uuid is new: no guest cart is stored under it *)
FreshUuids(w) == Uuids \ DOMAIN w.guestCarts

(* the status of the response to a service outcome *)
StatusOf(route, outcome) ==
  IF outcome = "ok"
  THEN (IF route = "addToCart" THEN 201 ELSE 200)
  ELSE IF route = "addToCart" /\ outcome = "Product not found" THEN 404
  ELSE IF route = "updateCartItem" /\ outcome \in NotFoundConditions THEN 404
  ELSE IF route \in {"addToCart", "updateCartItem"} /\ outcome = "Insufficient stock"
       THEN 400
  ELSE 500

ServiceMethod(route) ==
  CASE route = "getCart" -> "getGuestCart"
    [] route = "addToCart" -> "addToGuestCart"
    [] route = "updateCartItem" -> "updateGuestCartItem"
    [] route = "removeCartItem" -> "removeFromGuestCart"
    [] route = "clearCart" -> "clearGuestCart"
    [] route = "validateCart" -> "validateCart"

(* a guest request in world w: the status, the session id the service was  *)
(* called with, its final frame and the world after it                     *)
GuestRequestIn(w, route, req, productId, quantity, uuid) ==
  LET sessionId == ResolveSessionId(route, req, uuid)
  IN IF sessionId = NoId
     THEN [status |-> 400, sessionId |-> NoId, f |-> Null, w |-> w]
     ELSE LET r == CallIn(w, ServiceMethod(route), NoId, sessionId,
                          productId, quantity, NoFaults)
          IN [status |-> StatusOf(route, r.f.outcome), sessionId |-> sessionId,
              f |-> r.f, w |-> r.w]

HttpGetCart(req, uuid) ==
  LET r == GuestRequestIn(World, "getCart", req, "", 0, uuid)
  IN /\ uuid \in FreshUuids(World)
     /\ products' = r.w.products
     /\ cartItems' = r.w.cartItems
     /\ guestCarts' = r.w.guestCarts
     /\ calls' = calls
     /\ wishlistItems' = r.w.wishlistItems

HttpAddToCart(req, productId, quantity, uuid) ==
  LET r == GuestRequestIn(World, "addToCart", req, productId, quantity, uuid)
  IN /\ uuid \in FreshUuids(World)
     /\ products' = r.w.products
     /\ cartItems' = r.w.cartItems
     /\ guestCarts' = r.w.guestCarts
     /\ calls' = calls
     /\ wishlistItems' = r.w.wishlistItems

HttpUpdateCartItem(req, productId, quantity) ==
  LET r == GuestRequestIn(World, "updateCartItem", req, productId, quantity, NoId)
  IN /\ products' = r.w.products
     /\ cartItems' = r.w.cartItems
     /\ guestCarts' = r.w.guestCarts
     /\ calls' = calls
     /\ wishlistItems' = r.w.wishlistItems

HttpRemoveCartItem(req, productId) ==
  LET r == GuestRequestIn(World, "removeCartItem", req, productId, 0, NoId)
  IN /\ products' = r.w.products
     /\ cartItems' = r.w.cartItems
     /\ guestCarts' = r.w.guestCarts
     /\ calls' = calls
     /\ wishlistItems' = r.w.wishlistItems

HttpClearCart(req) ==
  LET r == GuestRequestIn(World, "clearCart", req, "", 0, NoId)
  IN /\ products' = r.w.products
     /\ cartItems' = r.w.cartItems
     /\ guestCarts' = r.w.guestCarts
     /\ calls' = calls
     /\ wishlistItems' = r.w.wishlistItems

HttpValidateCart(req) ==
  LET r == GuestRequestIn(World, "validateCart", req, "", 0, NoId)
  IN /\ products' = r.w.products
     /\ cartItems' = r.w.cartItems
     /\ guestCarts' = r.w.guestCarts
     /\ calls' = calls
     /\ wishlistItems' = r.w.wishlistItems

NextH ==
  \/ \E req \in GuestRequests, uuid \in Uuids : HttpGetCart(req, uuid)
  \/ \E req \in GuestRequests, p \in ProductIds, q \in AddQuantities, uuid \in Uuids :
       HttpAddToCart(req, p, q, uuid)
  \/ \E req \in GuestRequests, p \in ProductIds, q \in UpdateQuantities :
       HttpUpdateCartItem(req, p, q)
  \/ \E req \in GuestRequests, p \in ProductIds : HttpRemoveCartItem(req, p)
  \/ \E req \in GuestRequests : HttpClearCart(req)
  \/ \E req \in GuestRequests : HttpValidateCart(req)

SpecH == Init /\ [][NextH]_vars

(* the request of a guest without a framework session who sends h *)
WithHeader(h) == [sessionID |-> NoId, header |-> h]

(* C29: for a guest who sends the same X-Session-ID header h on every      *)
(* request and has no framework session id, every route hands the session  *)
(* id h to the service, so that a line added by POST /items is in the cart *)
(* the following GET / returns and is found by the following PUT           *)
(* /items/:productId.                                                      *)
C29_HeaderNamesOneSession ==
  \A h \in HeaderSessionIds :
    /\ \A route \in GuestRoutes, uuid \in FreshUuids(World) :
         ResolveSessionId(route, WithHeader(h), uuid) = h
    /\ \A p \in ProductIds, q \in AddQuantities, u1, u2 \in FreshUuids(World) :
         LET added == GuestRequestIn(World, "addToCart", WithHeader(h), p, q, u1)
         IN (added.status = 201 /\ u2 \in FreshUuids(added.w)) =>
              LET read == GuestRequestIn(added.w, "getCart", WithHeader(h), "", 0, u2)
                  updated == GuestRequestIn(added.w, "updateCartItem",
                                            WithHeader(h), p, q, NoId)
              IN /\ read.status = 200
                 /\ \E k \in 1..Len(read.f.summary.items) :
                      read.f.summary.items[k].productId = p
                 /\ updated.status = 200

----------------------------------------------------------------------------
(* The two implementations side by side: an account and a guest session    *)
(* receive the same sequence of sequential calls over a catalog that does  *)
(* not change.                                                             *)

InitE ==
  /\ \E stock \in [ProductIds -> Stocks], price \in [ProductIds -> Prices] :
       products = [id \in ProductIds |->
                     [id |-> id, stock |-> stock[id], price |-> price[id]]]
  /\ cartItems = <<>>
  /\ guestCarts = <<>>
  /\ calls = [r \in Requests |-> Null]
  /\ wishlistItems = {}

BothAddItem(userId, sessionId, productId, quantity) ==
  LET u == AddItemIn(World, User(userId), productId, quantity)
      r == AddItemIn(u.w, Guest(sessionId), productId, quantity)
  IN /\ products' = r.w.products
     /\ cartItems' = r.w.cartItems
     /\ guestCarts' = r.w.guestCarts
     /\ calls' = calls
     /\ wishlistItems' = r.w.wishlistItems

BothUpdateItem(userId, sessionId, productId, quantity) ==
  LET u == UpdateItemIn(World, User(userId), productId, quantity)
      r == UpdateItemIn(u.w, Guest(sessionId), productId, quantity)
  IN /\ products' = r.w.products
     /\ cartItems' = r.w.cartItems
     /\ guestCarts' = r.w.guestCarts
     /\ calls' = calls
     /\ wishlistItems' = r.w.wishlistItems

BothRemoveItem(userId, sessionId, productId) ==
  LET u == RemoveItemIn(World, User(userId), productId)
      r == RemoveItemIn(u.w, Guest(sessionId), productId)
  IN /\ products' = r.w.products
     /\ cartItems' = r.w.cartItems
     /\ guestCarts' = r.w.guestCarts
     /\ calls' = calls
     /\ wishlistItems' = r.w.wishlistItems

BothClearCart(userId, sessionId) ==
  LET u == ClearCartIn(World, User(userId))
      r == ClearCartIn(u.w, Guest(sessionId))
  IN /\ products' = r.w.products
     /\ cartItems' = r.w.cartItems
     /\ guestCarts' = r.w.guestCarts
     /\ calls' = calls
     /\ wishlistItems' = r.w.wishlistItems

NextE ==
  \/ \E u \in UserIds, s \in SessionIds, p \in ProductIds, q \in AddQuantities :
       BothAddItem(u, s, p, q)
  \/ \E u \in UserIds, s \in SessionIds, p \in ProductIds, q \in UpdateQuantities :
       BothUpdateItem(u, s, p, q)
  \/ \E u \in UserIds, s \in SessionIds, p \in ProductIds : BothRemoveItem(u, s, p)
  \/ \E u \in UserIds, s \in SessionIds : BothClearCart(u, s)

SpecE == InitE /\ [][NextE]_vars

(* the error condition of an outcome: a missing line and a missing guest   *)
(* cart are both the condition CartItemNotFound                            *)
Condition(outcome) ==
  IF outcome \in {"Cart item not found", "Guest cart not found"}
  THEN "CartItemNotFound"
  ELSE outcome

LineSet(w, o) == Range(Lines(w, o))

(* the two calls end in the same condition and leave the same lines *)
SameResult(u, userId, g, sessionId) ==
  /\ Condition(u.f.outcome) = Condition(g.f.outcome)
  /\ LineSet(u.w, User(userId)) = LineSet(g.w, Guest(sessionId))
  /\ Len(Lines(u.w, User(userId))) = Len(Lines(g.w, Guest(sessionId)))

(* C30: after the same sequence of sequential add, update, remove and      *)
(* clear calls over a constant catalog, the account and the guest session  *)
(* hold the same set of (productId, quantity) lines, and the next call     *)
(* ends in both with success or in both with the same error condition      *)
(* (a missing guest cart counting as a missing line), leaving the same     *)
(* lines again.                                                            *)
C30_GuestAndAccountAreEquivalent ==
  \A userId \in UserIds, sessionId \in SessionIds :
    LET o == User(userId)
        g == Guest(sessionId)
    IN /\ LineSet(World, o) = LineSet(World, g)
       /\ \A p \in ProductIds :
            /\ \A q \in AddQuantities :
                 SameResult(AddItemIn(World, o, p, q), userId,
                            AddItemIn(World, g, p, q), sessionId)
            /\ \A q \in UpdateQuantities :
                 SameResult(UpdateItemIn(World, o, p, q), userId,
                            UpdateItemIn(World, g, p, q), sessionId)
            /\ SameResult(RemoveItemIn(World, o, p), userId,
                          RemoveItemIn(World, g, p), sessionId)
       /\ SameResult(ClearCartIn(World, o), userId, ClearCartIn(World, g), sessionId)

(* both hold one line of 2 units of p and none of p2: an update of p2      *)
(* fails in both for want of a line, an add of one more p fails in both    *)
(* for want of stock, an update of p to 1 succeeds in both                 *)
C30_Witness ==
  \E userId \in UserIds, sessionId \in SessionIds, p, p2 \in ProductIds :
    LET o == User(userId)
        g == Guest(sessionId)
    IN /\ p # p2
       /\ products[p].stock = 2 /\ products[p2].stock >= 1
       /\ LineSet(World, o) = {Line(p, 2)}
       /\ LineSet(World, g) = {Line(p, 2)}
       /\ UpdateItemIn(World, o, p2, 1).f.outcome = "Cart item not found"
       /\ UpdateItemIn(World, g, p2, 1).f.outcome = "Cart item not found"
       /\ AddItemIn(World, o, p, 1).f.outcome = "Insufficient stock"
       /\ AddItemIn(World, g, p, 1).f.outcome = "Insufficient stock"
       /\ UpdateItemIn(World, o, p, 1).f.outcome = "ok"
       /\ LineSet(UpdateItemIn(World, g, p, 1).w, g) = {Line(p, 1)}

----------------------------------------------------------------------------
(* Concurrent requests of an account and of a guest session, merges         *)
(* included, beside the carts of another account and another session.       *)

OtherUserId == "u2"
OtherSessionId == "s2"

(* the other owners hold, of every product in stock, as much as there is *)
OtherLines(stock) ==
  LET inStock(p) == stock[p] >= 1
      a == IF inStock("A") THEN <<Line("A", stock["A"])>> ELSE <<>>
      b == IF inStock("B") THEN <<Line("B", stock["B"])>> ELSE <<>>
  IN a \o b

(* the stocks of a catalog with at most MaxTotalStock units in all *)
StocksG == {stock \in [ProductIds -> Stocks] :
              SumSeq([k \in 1..2 |-> stock[<<"A", "B">>[k]]]) <= MaxTotalStock}

InitG ==
  /\ \E stock \in StocksG :
       /\ products = [id \in ProductIds |->
                        [id |-> id, stock |-> stock[id], price |-> PriceOf(id)]]
       /\ cartItems = [k \in 1..Len(OtherLines(stock)) |->
                         [userId |-> OtherUserId,
                          productId |-> OtherLines(stock)[k].productId,
                          quantity |-> OtherLines(stock)[k].quantity]]
       /\ guestCarts = (OtherSessionId :> [items |-> OtherLines(stock)])
  /\ calls = [r \in Requests |-> Null]
  /\ wishlistItems = {}

BeginAddToGuestCart(r, sessionId, productId, quantity) ==
  /\ calls[r] = Null
  /\ calls' = [calls EXCEPT ![r] =
                 NewFrame("addToGuestCart", NoId, sessionId, productId, quantity, NoFaults)]
  /\ UNCHANGED <<products, cartItems, guestCarts, wishlistItems>>

BeginUpdateGuestCartItem(r, sessionId, productId, quantity) ==
  /\ calls[r] = Null
  /\ calls' = [calls EXCEPT ![r] =
                 NewFrame("updateGuestCartItem", NoId, sessionId, productId, quantity, NoFaults)]
  /\ UNCHANGED <<products, cartItems, guestCarts, wishlistItems>>

BeginRemoveFromGuestCart(r, sessionId, productId) ==
  /\ calls[r] = Null
  /\ calls' = [calls EXCEPT ![r] =
                 NewFrame("removeFromGuestCart", NoId, sessionId, productId, 0, NoFaults)]
  /\ UNCHANGED <<products, cartItems, guestCarts, wishlistItems>>

BeginClearGuestCart(r, sessionId) ==
  /\ calls[r] = Null
  /\ calls' = [calls EXCEPT ![r] =
                 NewFrame("clearGuestCart", NoId, sessionId, "", 0, NoFaults)]
  /\ UNCHANGED <<products, cartItems, guestCarts, wishlistItems>>

BeginMergeGuestCartWithUserCart(r, userId, guestSessionId) ==
  /\ calls[r] = Null
  /\ calls' = [calls EXCEPT ![r] =
                 NewFrame("mergeGuestCartWithUserCart", userId, guestSessionId, "", 0,
                          NoFaults)]
  /\ UNCHANGED <<products, cartItems, guestCarts, wishlistItems>>

(* the request runs from the await it waits at to its next await; when the *)
(* method returns or throws, the controller answers in the same turn       *)
Continue(r) ==
  /\ calls[r] # Null
  /\ calls[r].pc # "done"
  /\ LET s == Step(calls[r], World)
     IN /\ calls' = [x \in Requests |->
                      IF x = r
                      THEN (IF s.f.pc = "done" THEN Null ELSE s.f)
                      ELSE SeenBy(calls[x], calls[r], World, s.w)]
        /\ products' = s.w.products
        /\ cartItems' = s.w.cartItems
        /\ guestCarts' = s.w.guestCarts
        /\ wishlistItems' = s.w.wishlistItems

(* one request of the account and one of the guest are in flight at a time; *)
(* either can be the merge that follows a login                             *)
AccountRequests == {"r1"}
GuestRequestSlots == {"r2"}

NextG ==
  \/ \E r \in AccountRequests, u \in UserIds, p \in ProductIds, q \in AddQuantities :
       BeginAddToUserCart(r, u, p, q)
  \/ \E r \in AccountRequests, u \in UserIds, p \in ProductIds, q \in UpdateQuantities :
       BeginUpdateUserCartItem(r, u, p, q)
  \/ \E r \in AccountRequests, u \in UserIds, p \in ProductIds :
       BeginRemoveFromUserCart(r, u, p)
  \/ \E r \in AccountRequests, u \in UserIds : BeginClearUserCart(r, u)
  \/ \E r \in GuestRequestSlots, s \in SessionIds, p \in ProductIds, q \in AddQuantities :
       BeginAddToGuestCart(r, s, p, q)
  \/ \E r \in GuestRequestSlots, s \in SessionIds, p \in ProductIds,
        q \in UpdateQuantities :
       BeginUpdateGuestCartItem(r, s, p, q)
  \/ \E r \in GuestRequestSlots, s \in SessionIds, p \in ProductIds :
       BeginRemoveFromGuestCart(r, s, p)
  \/ \E r \in GuestRequestSlots, s \in SessionIds : BeginClearGuestCart(r, s)
  \/ \E r \in Requests, u \in UserIds, s \in SessionIds :
       BeginMergeGuestCartWithUserCart(r, u, s)
  \/ \E r \in Requests : Continue(r)

SpecG == InitG /\ [][NextG]_vars

AllOwners == Owners \cup {User(OtherUserId), Guest(OtherSessionId)}

(* the owners a call is made for *)
OwnersOf(f) ==
  IF f.op = "mergeGuestCartWithUserCart"
  THEN {User(f.userId), Guest(f.sessionId)}
  ELSE IF f.userId # NoId THEN {User(f.userId)} ELSE {Guest(f.sessionId)}

(* the request in slot r is the one that takes this step *)
Stepped(r) ==
  /\ calls[r] # Null
  /\ \/ calls'[r] = Null
     \/ <<calls'[r].fn, calls'[r].pc, calls'[r].i, calls'[r].acc>>
          # <<calls[r].fn, calls[r].pc, calls[r].i, calls[r].acc>>

(* C21: under every interleaving of the requests, a step of an add, update, *)
(* remove or clear of one owner, or of a merge of an account and a guest   *)
(* session, leaves the lines of every other owner as they were.            *)
C21_OtherOwnersUntouched ==
  [][\A r \in Requests :
       Stepped(r) =>
         \A o \in AllOwners \ OwnersOf(calls[r]) :
           Lines(RowsAfter, o) = Lines(World, o)]_vars

(* a merge of u1 and s1 has written a line of u1 while the other account   *)
(* and the other session hold lines of the same product, and the guest     *)
(* session still has its cart                                              *)
C21_Witness ==
  \E r \in Requests, p \in ProductIds :
    /\ calls[r] # Null
    /\ calls[r].op = "mergeGuestCartWithUserCart"
    /\ calls[r].fn = "mergeGuestCartWithUserCart"
    /\ calls[r].i = 2
    /\ Quantity(World, User(calls[r].userId), p) >= 1
    /\ Quantity(World, Guest(calls[r].sessionId), p) >= 1
    /\ Quantity(World, User(OtherUserId), p) >= 1
    /\ Quantity(World, Guest(OtherSessionId), p) >= 1

(* C25: the stock of the catalog being constant, under every interleaving   *)
(* of add, update, remove, clear and merge requests every stored line, of   *)
(* an account or of a guest session, has a quantity <= the stock of its     *)
(* product.                                                                 *)
C25_LinesWithinStock ==
  /\ \A k \in 1..Len(cartItems) :
       cartItems[k].quantity <= products[cartItems[k].productId].stock
  /\ \A s \in DOMAIN guestCarts :
       \A k \in 1..Len(guestCarts[s].items) :
         guestCarts[s].items[k].quantity
           <= products[guestCarts[s].items[k].productId].stock

(* the account holds all the stock of p, the guest session holds a line of *)
(* p too, and a merge that has computed a sum above the stock is about to  *)
(* compare it with the stock                                               *)
C25_Witness ==
  \E r \in Requests, p \in ProductIds :
    /\ calls[r] # Null
    /\ calls[r].fn = "mergeGuestCartWithUserCart"
    /\ calls[r].pc = "getProductById"
    /\ calls[r].items[calls[r].i].productId = p
    /\ calls[r].newQuantity > products[p].stock
    /\ Quantity(World, User(calls[r].userId), p) = products[p].stock
    /\ Quantity(World, Guest(calls[r].sessionId), p) >= 1

----------------------------------------------------------------------------
(* Two calls in flight together, from a state in which no other is: every  *)
(* order in which their steps can be taken.                                *)

Config(f1, f2, w) == [f1 |-> f1, f2 |-> f2, w |-> w]

(* the configurations one step of either call leads to *)
Successors(c) ==
  (IF c.f1.pc # "done"
   THEN {LET s == Step(c.f1, c.w)
         IN Config(s.f, SeenBy(c.f2, c.f1, c.w, s.w), s.w)}
   ELSE {})
  \cup
  (IF c.f2.pc # "done"
   THEN {LET s == Step(c.f2, c.w)
         IN Config(SeenBy(c.f1, c.f2, c.w, s.w), s.f, s.w)}
   ELSE {})

RECURSIVE Reachable(_)
Reachable(S) ==
  LET T == S \cup UNION {Successors(c) : c \in S}
  IN IF T = S THEN S ELSE Reachable(T)

(* the configurations in which both calls have returned or thrown *)
Interleavings(f1, f2, w) ==
  {c \in Reachable({Config(f1, f2, w)}) : c.f1.pc = "done" /\ c.f2.pc = "done"}

MergeFrame(u, s) == NewFrame("mergeGuestCartWithUserCart", u, s, "", 0, NoFaults)

(* C27: under every interleaving of two concurrent merges of the same      *)
(* guest session into the same account, the account ends with at most      *)
(* a + g of every product, a being its quantity and g the guest's quantity *)
(* before either merge started.                                            *)
C27_GuestCartIsMergedOnce ==
  \A u \in UserIds, s \in SessionIds, p \in ProductIds :
    LET a == Quantity(World, User(u), p)
        g == Quantity(World, Guest(s), p)
    IN \A c \in Interleavings(MergeFrame(u, s), MergeFrame(u, s), World) :
         Quantity(c.w, User(u), p) <= a + g

GuestAddFrame(s, p, q) == NewFrame("addToGuestCart", NoId, s, p, q, NoFaults)

(* C28: under every interleaving of two concurrent guest adds of q1 and q2 *)
(* of a product of the catalog to the same session, which holds e of it:   *)
(* if both succeed the session ends with e + q1 + q2; an add that succeeds *)
(* stored a quantity <= stock; an add that fails stored nothing.           *)
C28_GuestAddsLoseNoUpdate ==
  \A s \in SessionIds, p \in ProductIds, q1, q2 \in AddQuantities :
    Resolves(p) =>
      LET e == Quantity(World, Guest(s), p)
      IN \A c \in Interleavings(GuestAddFrame(s, p, q1), GuestAddFrame(s, p, q2), World) :
           LET ok1 == c.f1.outcome = "ok"
               ok2 == c.f2.outcome = "ok"
           IN /\ Quantity(c.w, Guest(s), p)
                   = e + (IF ok1 THEN q1 ELSE 0) + (IF ok2 THEN q2 ELSE 0)
              /\ ok1 => c.f1.newQuantity <= products[p].stock
              /\ ok2 => c.f2.newQuantity <= products[p].stock
              /\ Quantity(c.w, Guest(s), p) <= products[p].stock \/ e > products[p].stock

(* the session holds nothing of p, of which there are 2: two adds of 1     *)
(* both succeed in every order and leave 2; two adds of 2 leave 2, the one *)
(* that stored first being the one that succeeded, in either order         *)
C28_Witness ==
  \E s \in SessionIds, p \in ProductIds :
    /\ Resolves(p)
    /\ products[p].stock = 2
    /\ Quantity(World, Guest(s), p) = 0
    /\ \A c \in Interleavings(GuestAddFrame(s, p, 1), GuestAddFrame(s, p, 1), World) :
         c.f1.outcome = "ok" /\ c.f2.outcome = "ok" /\ Quantity(c.w, Guest(s), p) = 2
    /\ \E c \in Interleavings(GuestAddFrame(s, p, 2), GuestAddFrame(s, p, 2), World) :
         c.f1.outcome = "ok" /\ c.f2.outcome = "Insufficient stock"
    /\ \E c \in Interleavings(GuestAddFrame(s, p, 2), GuestAddFrame(s, p, 2), World) :
         c.f1.outcome = "Insufficient stock" /\ c.f2.outcome = "ok"

====
